---------------------------- MODULE Spec2Model ----------------------------
(***************************************************************************)
(* The CSV batch-ingestion pipeline of the bookstore inventory API:        *)
(* processCSV (inventoryService), the row processor, the store / author /  *)
(* book / store-book gateways it calls, and the per-row transactions.      *)
(*                                                                         *)
(* Strings are sequences of one-character strings, so that trim, parseInt  *)
(* and parseFloat are computed and not assumed.  A CSV cell that the       *)
(* parser did not produce (a short line) is the value Undefined.           *)
(* Prices are counted in hundredths (the scale of the DECIMAL(10,2)        *)
(* column); the price cells of the model carry at most two decimals.       *)
(***************************************************************************)
EXTENDS Integers, Sequences, FiniteSets, TLC

(***************************************************************************)
(* Bounds of the model.                                                    *)
(***************************************************************************)
\* data rows of the short files uploaded in one behaviour, all files together
MaxRows == 2
\* number of uploads (processCSV calls) in one behaviour
MaxUploads == 2
\* number of failures the environment (disk, database) injects
MaxFaults == 2
\* long files hold up to MaxFullBatches full batches, plus at most one row
MaxFullBatches == 2
\* the copies the stock operations are called with run from -1 to MaxCopies
MaxCopies == 1
\* the authors and the books of the shop the report functions are applied to
MaxAuthors == 6
MaxBooks == 8
\* the longest cell the validators are applied to, but for two longer ones
MaxLen == 3

(***************************************************************************)
(* Program constants.                                                      *)
(***************************************************************************)
DEFAULT_BATCH_SIZE == 100

getSystemBatchSize == DEFAULT_BATCH_SIZE

(***************************************************************************)
(* JavaScript values and string functions.                                 *)
(***************************************************************************)
Undefined == <<"undefined">>

Digits == {"0", "1", "2", "3", "4", "5", "6", "7", "8", "9"}

DigitVal(c) ==
    CASE c = "0" -> 0 [] c = "1" -> 1 [] c = "2" -> 2 [] c = "3" -> 3
      [] c = "4" -> 4 [] c = "5" -> 5 [] c = "6" -> 6 [] c = "7" -> 7
      [] c = "8" -> 8 [] c = "9" -> 9

IsSpace(c) == c \in {" ", "\t"}

RECURSIVE TrimStart(_)
TrimStart(s) ==
    IF s # <<>> /\ IsSpace(Head(s)) THEN TrimStart(Tail(s)) ELSE s

RECURSIVE TrimEnd(_)
TrimEnd(s) ==
    IF s # <<>> /\ IsSpace(s[Len(s)])
    THEN TrimEnd(SubSeq(s, 1, Len(s) - 1))
    ELSE s

\* String.prototype.trim
Trim(s) == TrimEnd(TrimStart(s))

\* the longest prefix of s made of digits
RECURSIVE DigitPrefix(_)
DigitPrefix(s) ==
    IF s # <<>> /\ Head(s) \in Digits
    THEN <<Head(s)>> \o DigitPrefix(Tail(s))
    ELSE <<>>

RECURSIVE DigitsValue(_, _)
DigitsValue(ds, acc) ==
    IF ds = <<>> THEN acc ELSE DigitsValue(Tail(ds), 10 * acc + DigitVal(Head(ds)))

NaN == [nan |-> TRUE, val |-> 0]
Num(n) == [nan |-> FALSE, val |-> n]
isNaN(x) == x.nan

\* the sign of a numeric literal and the text after it
SignOf(s) == IF s # <<>> /\ Head(s) = "-" THEN -1 ELSE 1
Unsigned(s) == IF s # <<>> /\ Head(s) \in {"-", "+"} THEN Tail(s) ELSE s

\* parseInt(s, 10): leading white space, a sign, then the digits up to the
\* first character that is no digit; NaN when there is no digit
parseInt(s) ==
    LET t  == TrimStart(s)
        ds == DigitPrefix(Unsigned(t))
    IN  IF ds = <<>> THEN NaN ELSE Num(SignOf(t) * DigitsValue(ds, 0))

\* parseFloat(s), in hundredths: leading white space, a sign, digits, and
\* after a "." the decimals; NaN when neither part holds a digit
parseFloat(s) ==
    LET t    == TrimStart(s)
        u    == Unsigned(t)
        ip   == DigitPrefix(u)
        rest == SubSeq(u, Len(ip) + 1, Len(u))
        fp   == IF rest # <<>> /\ Head(rest) = "."
                THEN DigitPrefix(Tail(rest)) ELSE <<>>
        d1   == IF Len(fp) >= 1 THEN DigitVal(fp[1]) ELSE 0
        d2   == IF Len(fp) >= 2 THEN DigitVal(fp[2]) ELSE 0
    IN  IF ip = <<>> /\ fp = <<>>
        THEN NaN
        ELSE Num(SignOf(t) * (100 * DigitsValue(ip, 0) + 10 * d1 + d2))

(***************************************************************************)
(* validationService: the field validators.  An error message is the pair  *)
(* <<field name, text>> that the template `${fieldName} ...` joins.        *)
(***************************************************************************)
Valid == [isValid |-> TRUE, error |-> <<>>]
Invalid(fieldName, text) == [isValid |-> FALSE, error |-> <<fieldName, text>>]

validateRequiredString(value, fieldName) ==
    IF value = Undefined \/ value = <<>> \/ Trim(value) = <<>>
    THEN Invalid(fieldName, " is required.")
    ELSE Valid

validatePositiveInteger(value, fieldName) ==
    IF value = Undefined \/ value = <<>>
    THEN Invalid(fieldName, " is required.")
    ELSE LET parsed == parseInt(value)
         IN  IF isNaN(parsed) \/ parsed.val < 1
             THEN Invalid(fieldName, " must be a positive integer.")
             ELSE Valid

validateNonNegativeNumber(value, fieldName) ==
    IF value = Undefined \/ value = <<>>
    THEN Invalid(fieldName, " is required.")
    ELSE LET parsed == parseFloat(value)
         IN  IF isNaN(parsed) \/ parsed.val < 0
             THEN Invalid(fieldName, " must be a non-negative number.")
             ELSE Valid

\* validateCSVRow: the first failing field decides
validateCSVRow(row) ==
    LET storeNameValidation    == validateRequiredString(row.store_name, "store_name")
        storeAddressValidation == validateRequiredString(row.store_address, "store_address")
        bookNameValidation     == validateRequiredString(row.book_name, "book_name")
        pagesValidation        == validatePositiveInteger(row.pages, "pages")
        authorNameValidation   == validateRequiredString(row.author_name, "author_name")
        priceValidation        == validateNonNegativeNumber(row.price, "price")
    IN  IF ~storeNameValidation.isValid THEN storeNameValidation
        ELSE IF ~storeAddressValidation.isValid THEN storeAddressValidation
        ELSE IF ~bookNameValidation.isValid THEN bookNameValidation
        ELSE IF ~pagesValidation.isValid THEN pagesValidation
        ELSE IF ~authorNameValidation.isValid THEN authorNameValidation
        ELSE IF ~priceValidation.isValid THEN priceValidation
        ELSE Valid


(***************************************************************************)
(* CSV rows (interfaces/inventory.interface.ts, CSVRow) and the files the  *)
(* clients upload.  A file is the sequence of data rows csv-parser yields  *)
(* for it; the header line is not part of it.                              *)
(***************************************************************************)
CSVRow(store_name, store_address, book_name, pages, author_name, price, logo) ==
    [store_name |-> store_name, store_address |-> store_address,
     book_name |-> book_name, pages |-> pages, author_name |-> author_name,
     price |-> price, logo |-> logo]

\* a valid row: store "A", book "b" of author "a", no logo
RowA == CSVRow(<<"A">>, <<"x">>, <<"b">>, <<"5">>, <<"a">>, <<"9">>, <<>>)
\* the same store, book and author with padded cells, another price, other
\* pages, another address and a logo
RowA2 == CSVRow(<<" ", "A", " ">>, <<"y">>, <<"b", " ">>, <<"7">>, <<" ", "a">>,
                <<"7", ".", "5">>, <<" ", "L", " ">>)
\* another store and another book of the same author; the line has no logo cell
RowB == CSVRow(<<"B">>, <<"x">>, <<"c">>, <<"1">>, <<"a">>, <<"0">>, Undefined)
\* pages = -1
RowBadPages == CSVRow(<<"A">>, <<"x">>, <<"b">>, <<"-", "1">>, <<"a">>, <<"9">>, <<>>)
\* a blank author name and a price that is no number: the author is reported
RowBadAuthor == CSVRow(<<"B">>, <<"x">>, <<"c">>, <<"1">>, <<" ">>, <<"x">>, <<>>)

\* store "A" with the book of RowB, and a logo
RowAc == CSVRow(<<"A">>, <<"x">>, <<"c">>, <<"1">>, <<"a">>, <<"0">>, <<"L">>)

RowPool == {RowA, RowA2, RowB, RowBadPages, RowBadAuthor}

RECURSIVE SeqsUpTo(_, _)
SeqsUpTo(S, n) ==
    IF n = 0 THEN {<<>>}
    ELSE LET shorter == SeqsUpTo(S, n - 1)
         IN  shorter \cup {Append(f, r) : f \in {g \in shorter : Len(g) = n - 1}, r \in S}

ShortFiles == SeqsUpTo(RowPool, MaxRows)

\* a long file of n rows: rows that fail validation (pages = -1), but for
\* the valid rows RowA (2nd data row) and RowB (4th) inside the first batch
\* and RowA2, the first row of the second batch, when the file has them
LongFile(n) ==
    [k \in 1..n |-> IF k = 2 THEN RowA
                    ELSE IF k = 4 THEN RowB
                    ELSE IF k = DEFAULT_BATCH_SIZE + 1 THEN RowA2
                    ELSE RowBadPages]

\* no row, one row, and the lengths around the ends of the full batches
LongLengths ==
    {q * DEFAULT_BATCH_SIZE + r : q \in 0..MaxFullBatches, r \in {0, 1}}

LongFiles == {LongFile(n) : n \in LongLengths}

(***************************************************************************)
(* readBatch, countCSVRows and the batch arithmetic of processCSV.         *)
(***************************************************************************)
\* a faulty variant of countCSVRows: the header line is counted as a row
countCSVRowsWithHeader(content) == Len(content) + 1

\* countCSVRows: one 'data' event per data row
countCSVRows(content) == Len(content)

\* readBatch: the 'data' handler sees the rows with 0-based index currentRow
\* = 0, 1, ... until the file ends or, the batch being full (currentRow + 1
\* >= startRow + batchSize), the stream is destroyed; it keeps those with
\* startRow <= currentRow < startRow + batchSize, in the order read
readBatch(content, startRow, batchSize) ==
    LET seen == {currentRow \in 0..(Len(content) - 1) :
                    currentRow < startRow + batchSize}
        kept == {currentRow \in seen :
                    currentRow >= startRow /\ currentRow < startRow + batchSize}
    IN  [k \in 1..Cardinality(kept) |-> content[startRow + k]]

\* a faulty variant of TotalBatches: Math.floor in place of Math.ceil
TotalBatchesFloor(totalRows, batchSize) == totalRows \div batchSize

\* Math.ceil(totalRows / batchSize)
TotalBatches(totalRows, batchSize) == (totalRows + batchSize - 1) \div batchSize

\* const startRow = batchIndex * batchSize
StartRow(batchIndex, batchSize) == batchIndex * batchSize

\* a faulty variant of StartRowNumber: the header line is not counted
StartRowNumberNoHeader(startRow) == startRow + 1

\* const startRowNumber = startRow + 2: row 1 is the header
StartRowNumber(startRow) == startRow + 2

(***************************************************************************)
(* The result report (ProcessingResult) and the row processor's result.    *)
(***************************************************************************)
InitialResult ==
    [success |-> TRUE, totalRows |-> 0, processedRows |-> 0, errors |-> <<>>,
     created |-> [stores |-> 0, authors |-> 0, books |-> 0, storeBooks |-> 0],
     updated |-> [storeBooks |-> 0]]

InitialRowResult ==
    [createdStore |-> FALSE, createdAuthor |-> FALSE, createdBook |-> FALSE,
     createdStoreBook |-> FALSE, updatedStoreBook |-> FALSE]

Bump(flag) == IF flag THEN 1 ELSE 0

\* faulty variants of CountRow: the row is counted twice; a created record
\* is counted as updated too
CountRowTwice(res, rr) ==
    [res EXCEPT !.processedRows = @ + 2,
                !.created.stores = @ + Bump(rr.createdStore),
                !.created.authors = @ + Bump(rr.createdAuthor),
                !.created.books = @ + Bump(rr.createdBook),
                !.created.storeBooks = @ + Bump(rr.createdStoreBook),
                !.updated.storeBooks = @ + Bump(rr.updatedStoreBook)]

CountRowBoth(res, rr) ==
    [res EXCEPT !.processedRows = @ + 1,
                !.created.stores = @ + Bump(rr.createdStore),
                !.created.authors = @ + Bump(rr.createdAuthor),
                !.created.books = @ + Bump(rr.createdBook),
                !.created.storeBooks = @ + Bump(rr.createdStoreBook),
                !.updated.storeBooks = @ + 1]

\* processBatch, after a commit: processedRows++ and the five counters
CountRow(res, rr) ==
    [res EXCEPT !.processedRows = @ + 1,
                !.created.stores = @ + Bump(rr.createdStore),
                !.created.authors = @ + Bump(rr.createdAuthor),
                !.created.books = @ + Bump(rr.createdBook),
                !.created.storeBooks = @ + Bump(rr.createdStoreBook),
                !.updated.storeBooks = @ + Bump(rr.updatedStoreBook)]

\* a faulty variant of PushError: the entry takes the place of the list
PushErrorAlone(res, rowNumber, message) ==
    [res EXCEPT !.errors = <<[row |-> rowNumber, message |-> message]>>]

\* a faulty variant of PushError: the entry is appended twice
PushErrorTwice(res, rowNumber, message) ==
    [res EXCEPT !.errors = @ \o <<[row |-> rowNumber, message |-> message],
                                  [row |-> rowNumber, message |-> message]>>]

\* a faulty variant of PushError: the entry is lost
PushErrorLost(res, rowNumber, message) == res

\* result.errors.push({ row, message })
PushError(res, rowNumber, message) ==
    [res EXCEPT !.errors = Append(@, [row |-> rowNumber, message |-> message])]

\* the message of the exception a failing database call raises
StorageErrorMessage == <<"storage error">>

(***************************************************************************)
(* The upload request and its response: multer (routes/inventoryRoutes),   *)
(* validateFile, buildUploadResponse and the error handler.                *)
(***************************************************************************)
OK == 200
MULTI_STATUS == 207
BAD_REQUEST == 400
INTERNAL_SERVER_ERROR == 500

DEFAULT_ALLOWED_MIME_TYPES == {"text/csv", "application/vnd.ms-excel", "text/plain"}
DEFAULT_ALLOWED_EXTENSIONS == {<<".", "c", "s", "v">>}
DEFAULT_MAX_FILE_SIZE == 10 * 1024 * 1024

\* req.file: undefined when the request carries no file
NoFile == [present |-> FALSE, size |-> 0, mimetype |-> "", originalname |-> <<>>]
File(size, mimetype, originalname) ==
    [present |-> TRUE, size |-> size, mimetype |-> mimetype,
     originalname |-> originalname]

LowerCaseOf(c) ==
    CASE c = "A" -> "a" [] c = "C" -> "c" [] c = "S" -> "s" [] c = "V" -> "v"
      [] c = "P" -> "p" [] c = "N" -> "n" [] c = "G" -> "g" [] OTHER -> c

\* String.prototype.toLowerCase
toLowerCase(s) == [k \in 1..Len(s) |-> LowerCaseOf(s[k])]

\* String.prototype.endsWith
endsWith(s, suffix) ==
    /\ Len(s) >= Len(suffix)
    /\ SubSeq(s, Len(s) - Len(suffix) + 1, Len(s)) = suffix

\* multer's fileFilter: an accepted MIME type or the .csv extension
fileFilter(file) ==
    \/ file.mimetype \in DEFAULT_ALLOWED_MIME_TYPES
    \/ endsWith(toLowerCase(file.originalname), <<".", "c", "s", "v">>)

\* multer's limits.fileSize: the upload is refused when it holds more bytes
fileSizeLimit == 10 * 1024 * 1024

\* validationService.validateFile, as validateFileUpload calls it
validateFile(file) ==
    IF ~file.present
    THEN Invalid("", "No file uploaded. Please upload a CSV file.")
    ELSE IF file.size = 0
    THEN Invalid("", "Uploaded file is empty.")
    ELSE IF file.size > DEFAULT_MAX_FILE_SIZE
    THEN Invalid("", "File size exceeds the maximum allowed size")
    ELSE IF file.mimetype \notin DEFAULT_ALLOWED_MIME_TYPES
    THEN Invalid("", "Invalid file type. Please upload a CSV file.")
    ELSE IF ~\E ext \in DEFAULT_ALLOWED_EXTENSIONS :
                endsWith(toLowerCase(file.originalname), ext)
    THEN Invalid("", "Invalid file extension.")
    ELSE Valid

validateFileUpload(file) == validateFile(file)

NoData == [none |-> TRUE]

NoResponse ==
    [statusCode |-> 0, success |-> FALSE, message |-> "", data |-> NoData,
     meta |-> NoData]

\* a faulty variant of buildUploadResponse: a result with errors and
\* processed rows is answered with 200
buildUploadResponseNoPartial(res) ==
    [statusCode |-> IF res.processedRows = 0 /\ Len(res.errors) > 0
                    THEN 400 ELSE 200,
     success |-> res.processedRows > 0 \/ Len(res.errors) = 0,
     message |-> "", data |-> res,
     meta |-> [totalRows |-> res.totalRows, processedRows |-> res.processedRows,
               created |-> res.created, updated |-> res.updated]]

\* buildUploadResponse, and the body uploadInventory sends with its status
buildUploadResponse(res) ==
    LET meta == [totalRows |-> res.totalRows, processedRows |-> res.processedRows,
                 created |-> res.created, updated |-> res.updated]
    IN  IF res.processedRows = 0 /\ Len(res.errors) > 0
        THEN [statusCode |-> 400, success |-> FALSE,
              message |-> "Failed to process any rows from the CSV file.",
              data |-> res, meta |-> meta]
        ELSE IF Len(res.errors) > 0
        THEN [statusCode |-> 207, success |-> TRUE,
              message |-> "CSV processed with some errors.",
              data |-> res, meta |-> meta]
        ELSE [statusCode |-> 200, success |-> TRUE,
              message |-> "CSV file processed successfully.",
              data |-> res, meta |-> meta]

\* the errors that reach the error handler
AppError(statusCode, message) ==
    [name |-> "AppError", statusCode |-> statusCode, message |-> message]
ErrorNamed(name) == [name |-> name, statusCode |-> 0, message |-> name]

\* ValidationError.forField('file', ...)
ValidationError == AppError(BAD_REQUEST, "Validation failed")

SequelizeNames ==
    {"SequelizeValidationError", "SequelizeUniqueConstraintError",
     "SequelizeConnectionError", "SequelizeDatabaseError"}

\* errorHandler (production: NODE_ENV is not 'development')
errorHandler(err) ==
    LET failure(statusCode, message) ==
            [statusCode |-> statusCode, success |-> FALSE, message |-> message,
             data |-> NoData, meta |-> NoData]
    IN  IF err.name = "AppError" THEN failure(err.statusCode, err.message)
        ELSE IF err.name = "MulterError"
        THEN failure(BAD_REQUEST, "File size exceeds the maximum allowed limit")
        ELSE IF err.name \in {"SequelizeValidationError",
                              "SequelizeUniqueConstraintError"}
        THEN failure(BAD_REQUEST, "Validation error")
        ELSE IF err.name \in SequelizeNames
        THEN failure(INTERNAL_SERVER_ERROR, "Database operation failed")
        ELSE failure(INTERNAL_SERVER_ERROR, "Internal server error")

\* the exceptions that leave processCSV: an Error of the file system or of a
\* finished transaction, or a connection error of Sequelize
ThrownNames == {"Error", "SequelizeConnectionError"}

\* the upload every client of Spec and SpecLong sends
CsvUpload == File(1, "text/csv", <<"a", ".", "c", "s", "v">>)

(***************************************************************************)
(* State.                                                                  *)
(***************************************************************************)
VARIABLES
    db,            \* the committed rows of the four tables
    disk,          \* the scratch files that exist in the temp directory
    uploads,       \* processCSV calls started so far
    uploadedRows,  \* data rows of the files uploaded so far
    faults,        \* failures injected so far
    pc,            \* where each request handler stands
    fileBuffer,    \* processCSV: the uploaded file
    call,          \* the name saveTempFile gives the call's scratch file
    tempFilePath,  \* processCSV: null until saveTempFile has returned
    result,        \* processCSV: the ProcessingResult
    completion,    \* how processCSV ends: "return" or "throw"
    totalBatches, batchIndex, batchRows, i,
    rowsRead,      \* rows the readBatch calls of the call have returned
    transaction,   \* processBatch: the transaction of the current row
    scope,         \* processRow: store, author, book, existingStoreBook, result
    request,       \* req.file of the last request of each handler
    response       \* the response each handler sent last

vars == <<db, disk, uploads, uploadedRows, faults, pc, fileBuffer, call, tempFilePath, result,
          completion, totalBatches, batchIndex, batchRows, i, rowsRead,
          transaction, scope, request, response>>

envVars == <<db, disk, uploads, uploadedRows, faults>>
fileVars == <<fileBuffer, call, tempFilePath>>
batchVars == <<totalBatches, batchIndex, batchRows, i, rowsRead>>
rowVars == <<transaction, scope>>
httpVars == <<request, response>>

\* the request handlers that can run at the same time
Procs == {1, 2}

Null == 0

Tables == {"stores", "authors", "books", "storeBooks"}

EmptyTables == [stores |-> {}, authors |-> {}, books |-> {}, storeBooks |-> {}]

\* a transaction: "none" before sequelize.transaction() returns, "open", and
\* finished with "commit" or "rollback"; ins and upd are its pending writes
NoTransaction == [state |-> "none", ins |-> EmptyTables, upd |-> EmptyTables]
OpenTransaction == [state |-> "open", ins |-> EmptyTables, upd |-> EmptyTables]

\* a faulty variant of Finished: the transaction stays open
FinishedStillOpen(how) == [state |-> "open", ins |-> EmptyTables, upd |-> EmptyTables]

\* commit() and rollback() finish the transaction and forget its writes
Finished(how) == [state |-> how, ins |-> EmptyTables, upd |-> EmptyTables]

NullStoreBook ==
    [id |-> Null, storeId |-> Null, bookId |-> Null, price |-> 0, copies |-> 0,
     soldOut |-> FALSE]

InitialScope ==
    [store |-> Null, author |-> Null, book |-> Null,
     existingStoreBook |-> NullStoreBook, result |-> InitialRowResult,
     error |-> <<>>]

\* what the statements of transaction t read: the committed rows, with the
\* transaction's own inserts and updates
View(t) ==
    [tb \in Tables |->
        {r \in db[tb] : \A u \in t.upd[tb] : u.id # r.id}
            \cup t.upd[tb] \cup t.ins[tb]]

Insert(t, tb, r) == [t EXCEPT !.ins[tb] = @ \cup {r}]

Update(t, tb, r) ==
    IF \E x \in t.ins[tb] : x.id = r.id
    THEN [t EXCEPT !.ins[tb] = {x \in @ : x.id # r.id} \cup {r}]
    ELSE [t EXCEPT !.upd[tb] = {x \in @ : x.id # r.id} \cup {r}]

\* a fresh primary key (UUIDV4): one that no row, committed or pending, has
NewId(tb) ==
    LET used == {r.id : r \in db[tb]}
                  \cup UNION {{r.id : r \in transaction[q].ins[tb]} : q \in Procs}
    IN  CHOOSE n \in 1..(Cardinality(used) + 1) :
            n \notin used /\ \A m \in 1..(n - 1) : m \in used

\* findOne: the first row in storage order
First(rows) == CHOOSE r \in rows : \A o \in rows : r.id <= o.id

Init ==
    /\ db = EmptyTables
    /\ disk = {}
    /\ uploads = 0
    /\ uploadedRows = 0
    /\ faults = 0
    /\ pc = [p \in Procs |-> "idle"]
    /\ fileBuffer = [p \in Procs |-> <<>>]
    /\ call = [p \in Procs |-> Null]
    /\ tempFilePath = [p \in Procs |-> Null]
    /\ result = [p \in Procs |-> InitialResult]
    /\ completion = [p \in Procs |-> "none"]
    /\ totalBatches = [p \in Procs |-> 0]
    /\ batchIndex = [p \in Procs |-> 0]
    /\ batchRows = [p \in Procs |-> <<>>]
    /\ i = [p \in Procs |-> 0]
    /\ rowsRead = [p \in Procs |-> 0]
    /\ transaction = [p \in Procs |-> NoTransaction]
    /\ scope = [p \in Procs |-> InitialScope]
    /\ request = [p \in Procs |-> NoFile]
    /\ response = [p \in Procs |-> NoResponse]

(***************************************************************************)
(* processCSV.                                                             *)
(***************************************************************************)
CanFail == faults < MaxFaults

Goto(p, label) == pc' = [pc EXCEPT ![p] = label]

\* an exception leaves the try block of processCSV for its finally block
Throw(p) ==
    /\ Goto(p, "finally")
    /\ completion' = [completion EXCEPT ![p] = "throw"]

\* processCSV is called with the buffer of an uploaded file
StartProcessCSV(p, file) ==
    /\ pc[p] = "idle"
    /\ uploads < MaxUploads
    /\ uploads' = uploads + 1
    /\ uploadedRows' = uploadedRows + Len(file)
    /\ call' = [call EXCEPT ![p] = uploads + 1]
    /\ fileBuffer' = [fileBuffer EXCEPT ![p] = file]
    /\ tempFilePath' = [tempFilePath EXCEPT ![p] = Null]
    /\ result' = [result EXCEPT ![p] = InitialResult]
    /\ Goto(p, "saveTempFile")
    /\ UNCHANGED <<db, disk, faults, completion, batchVars, rowVars>>

\* POST /api/inventory/upload: upload.single('file') of multer, then
\* uploadInventory: validateFileUpload(req.file) and the call of processCSV.
\* A refused request is answered by the error handler
Receive(p, file, content) ==
    LET refuse(err) ==
            /\ pc[p] = "idle"
            /\ uploads < MaxUploads
            /\ uploads' = uploads + 1
            /\ response' = [response EXCEPT ![p] = errorHandler(err)]
            /\ UNCHANGED <<db, disk, uploadedRows, faults, pc, fileVars, result,
                           completion, batchVars, rowVars>>
    IN  /\ request' = [request EXCEPT ![p] = file]
        /\ IF file.present /\ ~fileFilter(file)
           THEN refuse(ErrorNamed("Error"))
           ELSE IF file.present /\ file.size > fileSizeLimit
           THEN refuse(ErrorNamed("MulterError"))
           ELSE IF ~validateFileUpload(file).isValid
           THEN refuse(ValidationError)
           ELSE /\ response' = [response EXCEPT ![p] = NoResponse]
                /\ StartProcessCSV(p, content)

Upload(p) ==
    \E file \in ShortFiles :
        /\ uploadedRows + Len(file) <= MaxRows
        /\ Receive(p, CsvUpload, file)

\* one long file is uploaded in a behaviour
UploadLong(p) ==
    \E file \in LongFiles :
        /\ uploads = 0
        /\ Receive(p, CsvUpload, file)

\* tempFilePath = await saveTempFile(fileBuffer, tempDir); a failing
\* fs.writeFile may or may not leave the file it opened
SaveTempFile(p) ==
    /\ pc[p] = "saveTempFile"
    /\ \/ /\ disk' = disk \cup {call[p]}
          /\ tempFilePath' = [tempFilePath EXCEPT ![p] = call[p]]
          /\ Goto(p, "countCSVRows")
          /\ UNCHANGED <<faults, completion>>
       \/ /\ CanFail
          /\ faults' = faults + 1
          /\ disk' = disk \cup {call[p]}
          /\ Throw(p)
          /\ UNCHANGED tempFilePath
       \/ /\ CanFail
          /\ faults' = faults + 1
          /\ Throw(p)
          /\ UNCHANGED <<disk, tempFilePath>>
    /\ UNCHANGED <<db, uploads, uploadedRows, httpVars, fileBuffer, call, result, batchVars, rowVars>>

\* result.totalRows = await countCSVRows(tempFilePath), the zero-row return,
\* totalBatches, and the first test of the batch loop
CountCSVRows(p) ==
    /\ pc[p] = "countCSVRows"
    /\ \/ LET n == countCSVRows(fileBuffer[p])
          IN  /\ result' = [result EXCEPT ![p].totalRows = n]
              /\ IF n = 0
                 THEN /\ Goto(p, "finally")
                      /\ completion' = [completion EXCEPT ![p] = "return"]
                      /\ UNCHANGED <<totalBatches, batchIndex>>
                 ELSE /\ totalBatches' =
                            [totalBatches EXCEPT ![p] = TotalBatches(n, getSystemBatchSize)]
                      /\ batchIndex' = [batchIndex EXCEPT ![p] = 0]
                      /\ Goto(p, "readBatch")
                      /\ UNCHANGED completion
              /\ UNCHANGED faults
       \/ /\ CanFail
          /\ faults' = faults + 1
          /\ Throw(p)
          /\ UNCHANGED <<result, totalBatches, batchIndex>>
    /\ UNCHANGED <<db, disk, uploads, uploadedRows, httpVars, fileVars, batchRows, i, rowsRead, rowVars>>

\* the end of one pass of the row loop of processBatch with the result res:
\* the next row, or the end of processBatch and the next batch, or the end
\* of the batch loop, result.success and the finally block
Continue(p, rows, nextI, res) ==
    /\ i' = [i EXCEPT ![p] = nextI]
    /\ IF nextI < Len(rows)
       THEN /\ Goto(p, "transaction")
            /\ result' = [result EXCEPT ![p] = res]
            /\ UNCHANGED <<batchIndex, completion>>
       ELSE /\ batchIndex' = [batchIndex EXCEPT ![p] = @ + 1]
            /\ IF batchIndex[p] + 1 < totalBatches[p]
               THEN /\ Goto(p, "readBatch")
                    /\ result' = [result EXCEPT ![p] = res]
                    /\ UNCHANGED completion
               ELSE /\ Goto(p, "finally")
                    /\ result' = [result EXCEPT
                                    ![p] = [res EXCEPT !.success = (Len(res.errors) = 0)]]
                    /\ completion' = [completion EXCEPT ![p] = "return"]

\* const batchRows = await readBatch(tempFilePath, startRow, batchSize), and
\* the call of processBatch
ReadBatch(p) ==
    /\ pc[p] = "readBatch"
    /\ \/ LET rows == readBatch(fileBuffer[p],
                                StartRow(batchIndex[p], getSystemBatchSize),
                                getSystemBatchSize)
          IN  /\ batchRows' = [batchRows EXCEPT ![p] = rows]
              /\ rowsRead' = [rowsRead EXCEPT ![p] = @ + Len(rows)]
              /\ Continue(p, rows, 0, result[p])
              /\ UNCHANGED faults
       \/ /\ CanFail
          /\ faults' = faults + 1
          /\ Throw(p)
          /\ UNCHANGED <<result, batchIndex, batchRows, i, rowsRead>>
    /\ UNCHANGED <<db, disk, uploads, uploadedRows, httpVars, fileVars, totalBatches, rowVars>>

(***************************************************************************)
(* processBatch: one transaction per row.                                  *)
(***************************************************************************)
CurrentRow(p) == batchRows[p][i[p] + 1]

\* const rowNumber = startRowNumber + i
RowNumber(p) ==
    StartRowNumber(StartRow(batchIndex[p], getSystemBatchSize)) + i[p]

\* const transaction = await sequelize.transaction(), outside the try block;
\* then validateCSVRow and, for a row that fails it, the error entry and the
\* call of rollback; for a valid row the call of processRow
BeginTransaction(p) ==
    /\ pc[p] = "transaction"
    /\ \/ LET validation == validateCSVRow(CurrentRow(p))
          IN  /\ transaction' = [transaction EXCEPT ![p] = OpenTransaction]
              /\ scope' = [scope EXCEPT ![p] = InitialScope]
              /\ IF ~validation.isValid
                 THEN /\ result' = [result EXCEPT
                                      ![p] = PushError(@, RowNumber(p), validation.error)]
                      /\ Goto(p, "rollbackInvalid")
                 ELSE /\ Goto(p, "findOrCreateStore")
                      /\ UNCHANGED result
              /\ UNCHANGED <<faults, completion>>
       \/ /\ CanFail
          /\ faults' = faults + 1
          /\ Throw(p)
          /\ UNCHANGED <<result, rowVars>>
    /\ UNCHANGED <<db, disk, uploads, uploadedRows, httpVars, fileVars, batchVars>>

\* await transaction.rollback() of a row that failed validation, then
\* continue; a failing rollback has finished the transaction and is caught
RollbackInvalid(p) ==
    /\ pc[p] = "rollbackInvalid"
    /\ transaction' = [transaction EXCEPT ![p] = Finished("rollback")]
    /\ \/ /\ Continue(p, batchRows[p], i[p] + 1, result[p])
          /\ UNCHANGED <<faults, scope>>
       \/ /\ CanFail
          /\ faults' = faults + 1
          /\ scope' = [scope EXCEPT ![p].error = StorageErrorMessage]
          /\ Goto(p, "catch")
          /\ UNCHANGED <<result, batchIndex, i, completion>>
    /\ UNCHANGED <<db, disk, uploads, uploadedRows, httpVars, fileVars, totalBatches, batchRows, rowsRead>>

(***************************************************************************)
(* processRow and the gateways it calls, under the row's transaction.      *)
(***************************************************************************)
\* a database call of processRow rejects: the catch block of processBatch
StorageError(p) ==
    /\ CanFail
    /\ faults' = faults + 1
    /\ scope' = [scope EXCEPT ![p].error = StorageErrorMessage]
    /\ Goto(p, "catch")
    /\ UNCHANGED transaction

\* row.logo?.trim()
LogoValue(row) == IF row.logo = Undefined THEN Undefined ELSE Trim(row.logo)

\* a faulty variant of Truthy: the empty string counts as a value
TruthyEmpty(s) == s # Undefined

\* the truth value of a string that may be undefined
Truthy(s) == s # Undefined /\ s # <<>>

\* the row of table stores that findOrCreateByName creates
NewStore(id, data) ==
    [id |-> id, name |-> Trim(data.name), address |-> Trim(data.address),
     logo |-> IF Truthy(data.logo) THEN data.logo ELSE Undefined]

\* storeService.findOrCreateStore -> StoreRepository.findOrCreateByName ->
\* findOrCreate({ name: trimmedName }, defaults); then result.createdStore
FindOrCreateStore(p) ==
    /\ pc[p] = "findOrCreateStore"
    /\ \/ LET row   == CurrentRow(p)
              data  == [name |-> Trim(row.store_name),
                        address |-> Trim(row.store_address),
                        logo |-> LogoValue(row)]
              found == {s \in View(transaction[p]).stores : s.name = Trim(data.name)}
              store == IF found # {} THEN First(found)
                       ELSE NewStore(NewId("stores"), data)
              storeCreated == found = {}
          IN  /\ transaction' =
                    [transaction EXCEPT
                       ![p] = IF storeCreated THEN Insert(@, "stores", store) ELSE @]
              /\ scope' = [scope EXCEPT ![p].store = store.id,
                                        ![p].result.createdStore = storeCreated]
              /\ IF ~storeCreated /\ Truthy(LogoValue(row))
                 THEN Goto(p, "updateStore")
                 ELSE Goto(p, "findOrCreateAuthor")
              /\ UNCHANGED faults
       \/ StorageError(p)
    /\ UNCHANGED <<db, disk, uploads, uploadedRows, httpVars, fileVars, result, completion, batchVars>>

\* storeService.updateStore(store.id, { logo: row.logo.trim() }, transaction)
UpdateStore(p) ==
    /\ pc[p] = "updateStore"
    /\ \/ LET instances == {s \in View(transaction[p]).stores : s.id = scope[p].store}
          IN  /\ transaction' =
                    [transaction EXCEPT
                       ![p] = IF instances = {} THEN @
                              ELSE Update(@, "stores",
                                     [First(instances) EXCEPT
                                        !.logo = Trim(CurrentRow(p).logo)])]
              /\ Goto(p, "findOrCreateAuthor")
              /\ UNCHANGED <<faults, scope>>
       \/ StorageError(p)
    /\ UNCHANGED <<db, disk, uploads, uploadedRows, httpVars, fileVars, result, completion, batchVars>>

\* authorService.findOrCreateAuthor(row.author_name.trim(), transaction)
FindOrCreateAuthor(p) ==
    /\ pc[p] = "findOrCreateAuthor"
    /\ \/ LET trimmedName == Trim(Trim(CurrentRow(p).author_name))
              found  == {a \in View(transaction[p]).authors : a.name = trimmedName}
              author == IF found # {} THEN First(found)
                        ELSE [id |-> NewId("authors"), name |-> trimmedName]
              authorCreated == found = {}
          IN  /\ transaction' =
                    [transaction EXCEPT
                       ![p] = IF authorCreated THEN Insert(@, "authors", author) ELSE @]
              /\ scope' = [scope EXCEPT ![p].author = author.id,
                                        ![p].result.createdAuthor = authorCreated]
              /\ Goto(p, "findOrCreateBook")
              /\ UNCHANGED faults
       \/ StorageError(p)
    /\ UNCHANGED <<db, disk, uploads, uploadedRows, httpVars, fileVars, result, completion, batchVars>>

\* bookService.findOrCreateBook({ name, pages: parseInt(row.pages, 10),
\* authorId: author.id }, transaction)
FindOrCreateBook(p) ==
    /\ pc[p] = "findOrCreateBook"
    /\ \/ LET row == CurrentRow(p)
              trimmedName == Trim(Trim(row.book_name))
              found == {b \in View(transaction[p]).books :
                          b.name = trimmedName /\ b.authorId = scope[p].author}
              book  == IF found # {} THEN First(found)
                       ELSE [id |-> NewId("books"), name |-> trimmedName,
                             pages |-> parseInt(row.pages).val,
                             authorId |-> scope[p].author]
              bookCreated == found = {}
          IN  /\ transaction' =
                    [transaction EXCEPT
                       ![p] = IF bookCreated THEN Insert(@, "books", book) ELSE @]
              /\ scope' = [scope EXCEPT ![p].book = book.id,
                                        ![p].result.createdBook = bookCreated]
              /\ Goto(p, "findStoreBook")
              /\ UNCHANGED faults
       \/ StorageError(p)
    /\ UNCHANGED <<db, disk, uploads, uploadedRows, httpVars, fileVars, result, completion, batchVars>>

\* findOrCreateStoreBook: storeBookRepository.findByStoreAndBook
FindStoreBook(p) ==
    /\ pc[p] = "findStoreBook"
    /\ \/ LET found == {sb \in View(transaction[p]).storeBooks :
                          sb.storeId = scope[p].store /\ sb.bookId = scope[p].book}
          IN  /\ scope' = [scope EXCEPT
                             ![p].existingStoreBook =
                                 IF found # {} THEN First(found) ELSE NullStoreBook]
              /\ Goto(p, "writeStoreBook")
              /\ UNCHANGED <<faults, transaction>>
       \/ StorageError(p)
    /\ UNCHANGED <<db, disk, uploads, uploadedRows, httpVars, fileVars, result, completion, batchVars>>

\* faulty variants of UpdatedStoreBook: the old price is kept; the record is
\* marked sold out; the higher price is kept
UpdatedStoreBookOldPrice(existingStoreBook, price) ==
    [existingStoreBook EXCEPT !.copies = existingStoreBook.copies + 1,
                              !.soldOut = FALSE]

UpdatedStoreBookSoldOut(existingStoreBook, price) ==
    [existingStoreBook EXCEPT !.copies = existingStoreBook.copies + 1,
                              !.price = price,
                              !.soldOut = TRUE]

UpdatedStoreBookMaxPrice(existingStoreBook, price) ==
    [existingStoreBook EXCEPT !.copies = existingStoreBook.copies + 1,
                              !.price = IF price > @ THEN price ELSE @,
                              !.soldOut = FALSE]

\* existingStoreBook.update({ copies: newCopies, price, soldOut: false })
UpdatedStoreBook(existingStoreBook, price) ==
    [existingStoreBook EXCEPT !.copies = existingStoreBook.copies + 1,
                              !.price = price,
                              !.soldOut = FALSE]

\* a faulty variant of CreatedStoreBook: the record starts with two copies
CreatedStoreBookTwoCopies(id, storeId, bookId, price) ==
    [id |-> id, storeId |-> storeId, bookId |-> bookId, price |-> price,
     copies |-> 2, soldOut |-> FALSE]

\* createStoreBook({ storeId, bookId, price, copies: data.copies ?? 1,
\* soldOut: false }): processRow passes no copies
CreatedStoreBook(id, storeId, bookId, price) ==
    [id |-> id, storeId |-> storeId, bookId |-> bookId, price |-> price,
     copies |-> 1, soldOut |-> FALSE]

\* a faulty variant of UniqueStoreBook: the table has no unique index
UniqueStoreBookNoIndex(storeId, bookId) == TRUE

\* the unique index of store_books on (store_id, book_id)
UniqueStoreBook(storeId, bookId) ==
    \A sb \in db.storeBooks : ~(sb.storeId = storeId /\ sb.bookId = bookId)

\* another transaction that is still open has inserted or updated the row
\* with the same key: the unique index makes an INSERT, and the lock of the
\* row an UPDATE, wait until that transaction ends
PendingStoreBook(p, storeId, bookId) ==
    \E q \in Procs \ {p} :
        /\ transaction[q].state = "open"
        /\ \E sb \in transaction[q].ins.storeBooks \cup transaction[q].upd.storeBooks :
              sb.storeId = storeId /\ sb.bookId = bookId

\* findOrCreateStoreBook: the update of the row found, or the create; then
\* result.createdStoreBook, result.updatedStoreBook and the call of commit
WriteStoreBook(p) ==
    /\ pc[p] = "writeStoreBook"
    /\ \/ /\ ~PendingStoreBook(p, scope[p].store, scope[p].book)
          /\ LET price == parseFloat(CurrentRow(p).price).val
                 existingStoreBook == scope[p].existingStoreBook
             IN  IF existingStoreBook.id # Null
                 THEN /\ transaction' =
                            [transaction EXCEPT
                               ![p] = Update(@, "storeBooks",
                                             UpdatedStoreBook(existingStoreBook, price))]
                      /\ scope' = [scope EXCEPT ![p].result.updatedStoreBook = TRUE]
                      /\ Goto(p, "commit")
                 ELSE IF UniqueStoreBook(scope[p].store, scope[p].book)
                 THEN /\ transaction' =
                            [transaction EXCEPT
                               ![p] = Insert(@, "storeBooks",
                                             CreatedStoreBook(NewId("storeBooks"),
                                                 scope[p].store, scope[p].book, price))]
                      /\ scope' = [scope EXCEPT ![p].result.createdStoreBook = TRUE]
                      /\ Goto(p, "commit")
                 ELSE /\ scope' = [scope EXCEPT ![p].error = <<"Validation error">>]
                      /\ Goto(p, "catch")
                      /\ UNCHANGED transaction
          /\ UNCHANGED faults
       \/ StorageError(p)
    /\ UNCHANGED <<db, disk, uploads, uploadedRows, httpVars, fileVars, result, completion, batchVars>>

\* await transaction.commit(), then result.processedRows++ and the counters;
\* a failing commit has finished the transaction and is caught
Commit(p) ==
    /\ pc[p] = "commit"
    /\ transaction' = [transaction EXCEPT ![p] = Finished("commit")]
    /\ \/ /\ db' = View(transaction[p])
          /\ Continue(p, batchRows[p], i[p] + 1, CountRow(result[p], scope[p].result))
          /\ UNCHANGED <<faults, scope>>
       \/ /\ CanFail
          /\ faults' = faults + 1
          /\ scope' = [scope EXCEPT ![p].error = StorageErrorMessage]
          /\ Goto(p, "catch")
          /\ UNCHANGED <<db, result, batchIndex, i, completion>>
    /\ UNCHANGED <<disk, uploads, uploadedRows, httpVars, fileVars, totalBatches, batchRows, rowsRead>>

\* a faulty variant of Catch: the catch block commits what the row wrote
CatchCommits(p) ==
    /\ pc[p] = "catch"
    /\ db' = View(transaction[p])
    /\ transaction' = [transaction EXCEPT ![p] = Finished("commit")]
    /\ Continue(p, batchRows[p], i[p] + 1,
                PushError(result[p], RowNumber(p), scope[p].error))
    /\ UNCHANGED <<disk, uploads, uploadedRows, faults, httpVars, fileVars,
                   totalBatches, batchRows, rowsRead, scope>>

\* catch (error): await transaction.rollback(), then the error entry with
\* error.message.  rollback() rejects on a transaction that commit or
\* rollback has finished, and the rejection leaves processBatch
Catch(p) ==
    /\ pc[p] = "catch"
    /\ \/ /\ transaction[p].state # "open"
          /\ Throw(p)
          /\ UNCHANGED <<faults, transaction, result, batchIndex, i>>
       \/ /\ transaction[p].state = "open"
          /\ transaction' = [transaction EXCEPT ![p] = Finished("rollback")]
          /\ Continue(p, batchRows[p], i[p] + 1,
                      PushError(result[p], RowNumber(p), scope[p].error))
          /\ UNCHANGED faults
       \/ /\ transaction[p].state = "open"
          /\ CanFail
          /\ faults' = faults + 1
          /\ transaction' = [transaction EXCEPT ![p] = Finished("rollback")]
          /\ Throw(p)
          /\ UNCHANGED <<result, batchIndex, i>>
    /\ UNCHANGED <<db, disk, uploads, uploadedRows, httpVars, fileVars, totalBatches, batchRows, rowsRead, scope>>

(***************************************************************************)
(* The finally block of processCSV, and the end of the call.               *)
(***************************************************************************)
\* a faulty variant of Finally: the failure of the deletion is thrown
FinallyPropagates(p) ==
    /\ pc[p] = "finally"
    /\ \/ /\ disk' = disk \ {tempFilePath[p]}
          /\ UNCHANGED <<faults, completion>>
       \/ /\ tempFilePath[p] # Null
          /\ CanFail
          /\ faults' = faults + 1
          /\ completion' = [completion EXCEPT ![p] = "throw"]
          /\ UNCHANGED disk
    /\ Goto(p, "done")
    /\ UNCHANGED <<db, uploads, uploadedRows, httpVars, fileVars, result,
                   batchVars, rowVars>>

\* a faulty variant of Finally: a call that ends with an exception undoes
\* the rows committed before
FinallyRollsBack(p) ==
    /\ pc[p] = "finally"
    /\ disk' = disk \ {tempFilePath[p]}
    /\ db' = IF completion[p] = "throw" THEN EmptyTables ELSE db
    /\ Goto(p, "done")
    /\ UNCHANGED <<uploads, uploadedRows, faults, httpVars, fileVars, result,
                   completion, batchVars, rowVars>>

\* if (tempFilePath) await cleanupTempFile(tempFilePath): fs.unlink, whose
\* failure is logged and swallowed
Finally(p) ==
    /\ pc[p] = "finally"
    /\ \/ /\ tempFilePath[p] = Null
          /\ UNCHANGED <<disk, faults>>
       \/ /\ tempFilePath[p] # Null
          /\ disk' = disk \ {tempFilePath[p]}
          /\ UNCHANGED faults
       \/ /\ tempFilePath[p] # Null
          /\ CanFail
          /\ faults' = faults + 1
          /\ UNCHANGED disk
    /\ Goto(p, "done")
    /\ UNCHANGED <<db, uploads, uploadedRows, httpVars, fileVars, result, completion, batchVars, rowVars>>

\* processCSV has returned its result or thrown: uploadInventory sends
\* buildUploadResponse(result), or the error handler answers; the locals of
\* the call are gone
Respond(p) ==
    /\ pc[p] = "done"
    /\ \/ /\ completion[p] = "return"
          /\ response' = [response EXCEPT ![p] = buildUploadResponse(result[p])]
       \/ /\ completion[p] = "throw"
          /\ \E name \in ThrownNames :
                response' = [response EXCEPT ![p] = errorHandler(ErrorNamed(name))]
    /\ UNCHANGED request
    /\ Goto(p, "idle")
    /\ fileBuffer' = [fileBuffer EXCEPT ![p] = <<>>]
    /\ call' = [call EXCEPT ![p] = Null]
    /\ tempFilePath' = [tempFilePath EXCEPT ![p] = Null]
    /\ result' = [result EXCEPT ![p] = InitialResult]
    /\ completion' = [completion EXCEPT ![p] = "none"]
    /\ totalBatches' = [totalBatches EXCEPT ![p] = 0]
    /\ batchIndex' = [batchIndex EXCEPT ![p] = 0]
    /\ batchRows' = [batchRows EXCEPT ![p] = <<>>]
    /\ i' = [i EXCEPT ![p] = 0]
    /\ rowsRead' = [rowsRead EXCEPT ![p] = 0]
    /\ transaction' = [transaction EXCEPT ![p] = NoTransaction]
    /\ scope' = [scope EXCEPT ![p] = InitialScope]
    /\ UNCHANGED envVars

(***************************************************************************)
(* Specifications.  Spec: one client uploads short files, one after the    *)
(* other.  SpecLong: one file that spans several batches.                  *)
(***************************************************************************)
Step(p) ==
    \/ SaveTempFile(p)
    \/ CountCSVRows(p)
    \/ ReadBatch(p)
    \/ BeginTransaction(p)
    \/ RollbackInvalid(p)
    \/ FindOrCreateStore(p)
    \/ UpdateStore(p)
    \/ FindOrCreateAuthor(p)
    \/ FindOrCreateBook(p)
    \/ FindStoreBook(p)
    \/ WriteStoreBook(p)
    \/ Commit(p)
    \/ Catch(p)
    \/ Finally(p)
    \/ Respond(p)

Next == Upload(1) \/ Step(1)

Spec == Init /\ [][Next]_vars

NextLong == UploadLong(1) \/ Step(1)

SpecLong == Init /\ [][NextLong]_vars

\* the n-th file of a client that uploads one file after the other: the
\* first one creates a store and a book and adds a copy, the later ones
\* another store and book
StockFile(n) == IF n = 0 THEN <<RowA, RowBadPages, RowA2>> ELSE <<RowB>>

(***************************************************************************)
(* SpecRace: two clients upload at the same time, each one file.  The      *)
(* first file creates two stores and two books and then stocks the second  *)
(* book in the first store; the second file is a row that fails the       *)
(* validation and then that last row.                                     *)
(***************************************************************************)
RaceFile(p) == IF p = 1 THEN <<RowA, RowB, RowAc>> ELSE <<RowBadPages, RowAc>>

UploadRace(p) ==
    /\ request[p] = NoFile
    /\ Receive(p, CsvUpload, RaceFile(p))

NextRace == UploadRace(1) \/ UploadRace(2) \/ Step(1) \/ Step(2)

SpecRace == Init /\ [][NextRace]_vars

(***************************************************************************)
(* SpecUpload: after a first upload of a CSV file the client sends any     *)
(* request: no file, or a file of some size, MIME type and name.           *)
(***************************************************************************)
FileSizes == {0, 1, fileSizeLimit, fileSizeLimit + 1}
MimeTypes == DEFAULT_ALLOWED_MIME_TYPES \cup {"image/png"}
FileNames == {<<"a", ".", "c", "s", "v">>, <<"A", ".", "C", "S", "V">>,
              <<"a", ".", "p", "n", "g">>}

FilePool ==
    {NoFile} \cup {File(size, mimetype, originalname) :
                      size \in FileSizes, mimetype \in MimeTypes,
                      originalname \in FileNames}

UploadAny(p) ==
    \E file \in FilePool :
        /\ uploads = 0 => file = CsvUpload
        /\ Receive(p, file, StockFile(uploads))

NextUpload == UploadAny(1) \/ Step(1)

SpecUpload == Init /\ [][NextUpload]_vars

(***************************************************************************)
(* SpecLostUpdate: two clients upload at the same time, each one file.     *)
(* The first file creates the record of a store and a book and adds a      *)
(* copy; the second file is a row that fails the validation and then a     *)
(* row for the same store and book.                                        *)
(***************************************************************************)
UploadLostUpdate(p) ==
    /\ request[p] = NoFile
    /\ Receive(p, CsvUpload,
               IF p = 1 THEN <<RowA, RowA2>> ELSE <<RowBadPages, RowA>>)

NextLostUpdate == UploadLostUpdate(1) \/ UploadLostUpdate(2) \/ Step(1) \/ Step(2)

SpecLostUpdate == Init /\ [][NextLostUpdate]_vars

(***************************************************************************)
(* The stock operations of storeService and of StoreBookRepository, called *)
(* without a transaction: each statement commits on its own.               *)
(***************************************************************************)
\* an optional argument: None when the caller leaves it out
None == {}
Some(x) == {x}
\* opt ?? default
OrElse(opt, default) == IF opt = None THEN default ELSE CHOOSE x \in opt : TRUE

\* the validators of the StoreBook model: price min 0, copies min 0
ValidatesStoreBook(sb) == sb.price >= 0 /\ sb.copies >= 0

\* instance.update(values) and Model.create(values): the row is written
\* when the validators pass, a SequelizeValidationError is thrown otherwise
Saved(sb) ==
    IF ValidatesStoreBook(sb)
    THEN {x \in db.storeBooks : x.id # sb.id} \cup {sb}
    ELSE db.storeBooks

findByStoreAndBook(storeId, bookId) ==
    {sb \in db.storeBooks : sb.storeId = storeId /\ sb.bookId = bookId}

findById(id) == {sb \in db.storeBooks : sb.id = id}

\* storeService.updateStoreBookCopies
updateStoreBookCopies(storeId, bookId, copies) ==
    LET found == findByStoreAndBook(storeId, bookId)
    IN  IF found = {} THEN db.storeBooks
        ELSE Saved([First(found) EXCEPT !.copies = copies,
                                        !.soldOut = (copies = 0)])

\* storeService.incrementStoreBookCopies
incrementStoreBookCopies(storeId, bookId, amount) ==
    LET found == findByStoreAndBook(storeId, bookId)
    IN  IF found = {} THEN db.storeBooks
        ELSE LET newCopies == First(found).copies + amount
             IN  Saved([First(found) EXCEPT !.copies = newCopies,
                                            !.soldOut = FALSE])

\* StoreBookRepository.updateCopies
updateCopies(id, copies) ==
    LET found == findById(id)
    IN  IF found = {} THEN db.storeBooks
        ELSE Saved([First(found) EXCEPT !.copies = copies,
                                        !.soldOut = (copies <= 0)])

\* StoreBookRepository.incrementCopies
incrementCopies(id, incrementBy) ==
    LET found == findById(id)
    IN  IF found = {} THEN db.storeBooks
        ELSE LET newCopies == First(found).copies + incrementBy
             IN  Saved([First(found) EXCEPT !.copies = newCopies,
                                            !.soldOut = (newCopies <= 0)])

\* StoreBookRepository.updateSoldOut
updateSoldOut(id, soldOut) ==
    LET found == findById(id)
    IN  IF found = {} THEN db.storeBooks
        ELSE Saved([First(found) EXCEPT !.soldOut = soldOut])

\* StoreBookRepository.createStoreBook: soldOut: data.soldOut ?? false; the
\* foreign keys and the unique index of the table decide with the validators
repositoryCreateStoreBook(data) ==
    IF /\ data.storeId \in {s.id : s \in db.stores}
       /\ data.bookId \in {b.id : b \in db.books}
       /\ UniqueStoreBook(data.storeId, data.bookId)
    THEN Saved([id |-> NewId("storeBooks"), storeId |-> data.storeId,
                bookId |-> data.bookId, price |-> data.price,
                copies |-> data.copies,
                soldOut |-> OrElse(data.soldOut, FALSE)])
    ELSE db.storeBooks

\* storeService.createStoreBook: copies: data.copies ?? 1, soldOut: false
createStoreBook(data) ==
    repositoryCreateStoreBook(
        [storeId |-> data.storeId, bookId |-> data.bookId, price |-> data.price,
         copies |-> OrElse(data.copies, 1),
         soldOut |-> Some(FALSE)])

\* the arguments of the calls
CopiesArgs == (-1)..MaxCopies
AmountArgs == {-1, 0, 1}
PriceArgs == {500}

\* a stock operation is called between two uploads and leaves the table as
\* storeBooks; the bound of the model keeps the copies up to MaxCopies
StockCall(storeBooks) ==
    /\ pc[1] = "idle"
    /\ \A sb \in storeBooks : sb.copies <= MaxCopies
    /\ db' = [db EXCEPT !.storeBooks = storeBooks]
    /\ UNCHANGED <<disk, uploads, uploadedRows, faults, pc, fileVars, result,
                   completion, batchVars, rowVars, httpVars>>

UpdateStoreBookCopies ==
    \E s \in db.stores, b \in db.books, copies \in CopiesArgs :
        StockCall(updateStoreBookCopies(s.id, b.id, copies))

IncrementStoreBookCopies ==
    \E s \in db.stores, b \in db.books, amount \in AmountArgs :
        StockCall(incrementStoreBookCopies(s.id, b.id, amount))

CreateStoreBook ==
    \E s \in db.stores, b \in db.books, price \in PriceArgs,
       copies \in {Some(c) : c \in CopiesArgs} \cup {None} :
        StockCall(createStoreBook([storeId |-> s.id, bookId |-> b.id,
                                   price |-> price, copies |-> copies]))

UpdateCopies ==
    \E sb \in db.storeBooks, copies \in CopiesArgs :
        StockCall(updateCopies(sb.id, copies))

IncrementCopies ==
    \E sb \in db.storeBooks, incrementBy \in AmountArgs :
        StockCall(incrementCopies(sb.id, incrementBy))

UpdateSoldOut ==
    \E sb \in db.storeBooks, soldOut \in BOOLEAN :
        StockCall(updateSoldOut(sb.id, soldOut))

RepositoryCreateStoreBook ==
    \E s \in db.stores, b \in db.books, price \in PriceArgs,
       copies \in CopiesArgs, soldOut \in {Some(TRUE), Some(FALSE), None} :
        StockCall(repositoryCreateStoreBook(
                    [storeId |-> s.id, bookId |-> b.id, price |-> price,
                     copies |-> copies, soldOut |-> soldOut]))

UploadStock(p) == Receive(p, CsvUpload, StockFile(uploads))

\* SpecStock: a client uploads files and calls the stock operations
NextStock ==
    \/ UploadStock(1)
    \/ Step(1)
    \/ UpdateStoreBookCopies
    \/ IncrementStoreBookCopies
    \/ CreateStoreBook
    \/ UpdateCopies
    \/ IncrementCopies
    \/ UpdateSoldOut
    \/ RepositoryCreateStoreBook

SpecStock == Init /\ [][NextStock]_vars

(***************************************************************************)
(* The report of a store: storeService.getTopPriciestBooks and             *)
(* getTopProlificAuthors, reportService.getStoreReportData.                *)
(***************************************************************************)
\* findAll without an order: the rows in storage order
RECURSIVE findAll(_)
findAll(rows) ==
    IF rows = {} THEN <<>>
    ELSE <<First(rows)>> \o findAll(rows \ {First(rows)})

\* include: [{ model: Book, as: 'book', include: [{ model: Author, as:
\* 'author' }] }]; the foreign keys make the book and its author exist
WithDetails(sb) ==
    LET book   == CHOOSE b \in db.books : b.id = sb.bookId
        author == CHOOSE a \in db.authors : a.id = book.authorId
    IN  [id |-> sb.id, price |-> sb.price, copies |-> sb.copies,
         book |-> [id |-> book.id, name |-> book.name, pages |-> book.pages,
                   author |-> [id |-> author.id, name |-> author.name]]]

\* StoreBookRepository.findByStoreWithBookAndAuthor
findByStoreWithBookAndAuthor(storeId) ==
    LET rows == findAll({sb \in db.storeBooks : sb.storeId = storeId})
    IN  [k \in 1..Len(rows) |-> WithDetails(rows[k])]

\* Array.prototype.sort((a, b) => b[key] - a[key]), and ORDER BY key DESC:
\* descending and stable
SortDescending(seq, key) ==
    LET before(j) ==
            Cardinality({m \in 1..Len(seq) :
                           \/ seq[m][key] > seq[j][key]
                           \/ seq[m][key] = seq[j][key] /\ m < j})
    IN  [k \in 1..Len(seq) |-> seq[CHOOSE j \in 1..Len(seq) : before(j) = k - 1]]

\* Array.prototype.slice(0, limit)
Slice(seq, limit) == SubSeq(seq, 1, IF limit <= Len(seq) THEN limit ELSE Len(seq))

\* StoreBookRepository.findTopPriciestByStore: order by price DESC, limit
findTopPriciestByStore(storeId, limit) ==
    Slice(SortDescending(findByStoreWithBookAndAuthor(storeId), "price"), limit)

getTopPriciestBooks(storeId, limit) == findTopPriciestByStore(storeId, limit)

\* the loop over availableBooks: authorBookMap in insertion order
RECURSIVE AuthorBookMap(_)
AuthorBookMap(availableBooks) ==
    IF availableBooks = <<>> THEN <<>>
    ELSE LET sb  == availableBooks[Len(availableBooks)]
             map == AuthorBookMap(SubSeq(availableBooks, 1, Len(availableBooks) - 1))
             at  == {k \in 1..Len(map) : map[k].id = sb.book.author.id}
         IN  IF at = {}
             THEN Append(map, [id |-> sb.book.author.id,
                               name |-> sb.book.author.name,
                               bookIds |-> {sb.book.id}])
             ELSE [map EXCEPT ![CHOOSE k \in at : TRUE].bookIds = @ \cup {sb.book.id}]

\* a faulty variant of getTopProlificAuthors: the records without copies
\* count as well
getTopProlificAuthorsAllRows(storeId, limit) ==
    LET map     == AuthorBookMap(findByStoreWithBookAndAuthor(storeId))
        authors == [k \in 1..Len(map) |->
                       [id |-> map[k].id, name |-> map[k].name,
                        bookCount |-> Cardinality(map[k].bookIds)]]
    IN  Slice(SortDescending(authors, "bookCount"), limit)

\* storeService.getTopProlificAuthors
getTopProlificAuthors(storeId, limit) ==
    LET storeBooks     == findByStoreWithBookAndAuthor(storeId)
        availableBooks == SelectSeq(storeBooks, LAMBDA sb : sb.copies > 0)
        map            == AuthorBookMap(availableBooks)
        authors        == [k \in 1..Len(map) |->
                              [id |-> map[k].id, name |-> map[k].name,
                               bookCount |-> Cardinality(map[k].bookIds)]]
    IN  Slice(SortDescending(authors, "bookCount"), limit)

\* what getStoreReportData makes of a store and of the two lists
StoreReportData(store, topPriciestBooks, topProlificAuthors) ==
    [store |-> [id |-> store.id, name |-> store.name, address |-> store.address,
                logo |-> IF Truthy(store.logo) THEN store.logo ELSE Undefined],
     topPriciestBooks |->
        [k \in 1..Len(topPriciestBooks) |->
            [name |-> topPriciestBooks[k].book.name,
             authorName |-> topPriciestBooks[k].book.author.name,
             price |-> topPriciestBooks[k].price,
             pages |-> topPriciestBooks[k].book.pages]],
     topProlificAuthors |->
        [k \in 1..Len(topProlificAuthors) |->
            [name |-> topProlificAuthors[k].name,
             bookCount |-> topProlificAuthors[k].bookCount]]]

\* a faulty variant of getStoreReportData: no report for a store without
\* inventory
getStoreReportDataNoStock(storeId) ==
    LET found == {st \in db.stores : st.id = storeId}
    IN  IF found = {} \/ findByStoreWithBookAndAuthor(storeId) = <<>> THEN None
        ELSE Some(StoreReportData(First(found),
                                  getTopPriciestBooks(storeId, 5),
                                  getTopProlificAuthors(storeId, 5)))

\* reportService.getStoreReportData: null (None) for a store that is not
\* there
getStoreReportData(storeId) ==
    LET found == {st \in db.stores : st.id = storeId}
    IN  IF found = {} THEN None
        ELSE Some(StoreReportData(First(found),
                                  getTopPriciestBooks(storeId, 5),
                                  getTopProlificAuthors(storeId, 5)))

(***************************************************************************)
(* SpecReport: the report functions are applied to the tables of a shop    *)
(* with three stores, MaxAuthors authors and MaxBooks books.  Store 1      *)
(* stocks any of the books, with copies or without; store 2 stocks         *)
(* nothing; store 3 stocks the first book.                                 *)
(***************************************************************************)
CharOf(n) == CHOOSE c \in Digits : DigitVal(c) = n % 10

\* the author of book k
AuthorOf(k) == ((k - 1) % MaxAuthors) + 1

StockChoices == {"none", "zero", "some"}

\* the tables: stock[k] says how store 1 stocks book k; its records were
\* stored from the last book to the first
ReportTables(stock) ==
    [stores |-> {[id |-> n, name |-> <<"S", CharOf(n)>>, address |-> <<"x">>,
                  logo |-> Undefined] : n \in 1..3},
     authors |-> {[id |-> a, name |-> <<"a", CharOf(a)>>] : a \in 1..MaxAuthors},
     books |-> {[id |-> k, name |-> <<"b", CharOf(k)>>, pages |-> k,
                 authorId |-> AuthorOf(k)] : k \in 1..MaxBooks},
     storeBooks |->
        {[id |-> MaxBooks + 1 - k, storeId |-> 1,
          bookId |-> k, price |-> 100 * ((3 * k) % 5),
          copies |-> IF stock[k] = "zero" THEN 0 ELSE 2,
          soldOut |-> stock[k] = "zero"] :
            k \in {j \in 1..MaxBooks : stock[j] # "none"}}
        \cup {[id |-> MaxBooks + 1, storeId |-> 3, bookId |-> 1, price |-> 100,
               copies |-> 2, soldOut |-> FALSE]}]

InitReport ==
    /\ \E stock \in [1..MaxBooks -> StockChoices] : db = ReportTables(stock)
    /\ disk = {}
    /\ uploads = 0
    /\ uploadedRows = 0
    /\ faults = 0
    /\ pc = [p \in Procs |-> "idle"]
    /\ fileBuffer = [p \in Procs |-> <<>>]
    /\ call = [p \in Procs |-> Null]
    /\ tempFilePath = [p \in Procs |-> Null]
    /\ result = [p \in Procs |-> InitialResult]
    /\ completion = [p \in Procs |-> "none"]
    /\ totalBatches = [p \in Procs |-> 0]
    /\ batchIndex = [p \in Procs |-> 0]
    /\ batchRows = [p \in Procs |-> <<>>]
    /\ i = [p \in Procs |-> 0]
    /\ rowsRead = [p \in Procs |-> 0]
    /\ transaction = [p \in Procs |-> NoTransaction]
    /\ scope = [p \in Procs |-> InitialScope]
    /\ request = [p \in Procs |-> NoFile]
    /\ response = [p \in Procs |-> NoResponse]

\* the ids the report functions are called with: the three stores and the
\* id of no store
StoreIdArgs == 1..4

\* the value the function named in message has returned for the argument
\* arg, kept as the last response
Returns(p, message, arg, data) ==
    /\ response' = [response EXCEPT
                      ![p] = [statusCode |-> OK, success |-> TRUE,
                              message |-> message, data |-> data,
                              meta |-> [arg |-> arg]]]
    /\ UNCHANGED <<db, disk, uploads, uploadedRows, faults, pc, fileVars, result,
                   completion, batchVars, rowVars, request>>

GetTopProlificAuthors(p) ==
    \E storeId \in StoreIdArgs :
        Returns(p, "getTopProlificAuthors", storeId, getTopProlificAuthors(storeId, 5))

GetStoreReportData(p) ==
    \E storeId \in StoreIdArgs :
        Returns(p, "getStoreReportData", storeId, getStoreReportData(storeId))

NextReport == GetTopProlificAuthors(1) \/ GetStoreReportData(1)

SpecReport == InitReport /\ [][NextReport]_vars

(***************************************************************************)
(* SpecValidate: the two numeric validators of validationService are       *)
(* applied to the cells a CSV line can hold: no cell, and the strings of   *)
(* up to MaxLen characters, with "12abc" and "3.7".                        *)
(***************************************************************************)
CellPool ==
    SeqsUpTo({"0", "1", "a", ".", "-", " "}, MaxLen)
        \cup {Undefined, <<"1", "2", "a", "b", "c">>, <<"3", ".", "7">>}

ValidatePositiveInteger(p) ==
    \E value \in CellPool :
        Returns(p, "validatePositiveInteger", value,
                validatePositiveInteger(value, "pages"))

ValidateNonNegativeNumber(p) ==
    \E value \in CellPool :
        Returns(p, "validateNonNegativeNumber", value,
                validateNonNegativeNumber(value, "price"))

NextValidate == ValidatePositiveInteger(1) \/ ValidateNonNegativeNumber(1)

SpecValidate == Init /\ [][NextValidate]_vars

(***************************************************************************)
(* Properties.  Process 1 is the client of Spec and SpecLong.              *)
(***************************************************************************)
\* the positions of processBatch: a row is being processed
RowLabels ==
    {"transaction", "rollbackInvalid", "findOrCreateStore", "updateStore",
     "findOrCreateAuthor", "findOrCreateBook", "findStoreBook",
     "writeStoreBook", "commit", "catch"}

Range(s) == {s[k] : k \in 1..Len(s)}

Min(a, b) == IF a <= b THEN a ELSE b

\* the smallest c with c * b >= n
Ceil(n, b) == CHOOSE c \in 0..n : c * b >= n /\ (c = 0 \/ (c - 1) * b < n)

\* processCSV has returned its result to uploadInventory
Returned(p) == pc[p] = "done" /\ completion[p] = "return"

\* the committed tables hold the store, the author, the book of that author
\* and the inventory record of the row
Committed(row) ==
    \E s \in db.stores, a \in db.authors, b \in db.books, sb \in db.storeBooks :
        /\ s.name = Trim(row.store_name)
        /\ a.name = Trim(row.author_name)
        /\ b.name = Trim(row.book_name) /\ b.authorId = a.id
        /\ sb.storeId = s.id /\ sb.bookId = b.id /\ sb.copies >= 1

\* C1 (SpecLong): row-level isolation.  When processCSV has returned and no
\* storage or file error occurred, the error list has exactly one entry per
\* data row that fails validation, with the row's number (k + 1 for the k-th
\* data row) and the message of the failing field ("pages" for pages = -1);
\* processedRows is the number of valid rows, and the store, author, book and
\* inventory record of every valid row are committed.
C1_RowIsolation ==
    (Returned(1) /\ faults = 0) =>
        LET file    == fileBuffer[1]
            invalid == {k \in 1..Len(file) : ~validateCSVRow(file[k]).isValid}
        IN  /\ Len(result[1].errors) = Cardinality(invalid)
            /\ \A k \in invalid :
                  /\ [row |-> k + 1, message |-> validateCSVRow(file[k]).error]
                        \in Range(result[1].errors)
                  /\ file[k] = RowBadPages =>
                        \E e \in Range(result[1].errors) :
                            e.row = k + 1 /\ e.message[1] = "pages"
            /\ result[1].processedRows = Len(file) - Cardinality(invalid)
            /\ \A k \in (1..Len(file)) \ invalid : Committed(file[k])

\* C1, its case: a file of more than one batch has been processed without a
\* storage error; its rows 1 and 3 (reported as 2 and 4) failed on pages, the
\* valid rows 2 and 4 between and after them and the valid first row of the
\* second batch are committed
C1_Witness ==
    /\ Returned(1) /\ faults = 0
    /\ Len(fileBuffer[1]) = DEFAULT_BATCH_SIZE + 1
    /\ result[1].errors[1] = [row |-> 2, message |-> <<"pages", " must be a positive integer.">>]
    /\ result[1].errors[2].row = 4
    /\ result[1].processedRows = 3
    /\ Len(result[1].errors) = DEFAULT_BATCH_SIZE - 2
    /\ Cardinality(db.storeBooks) = 2
    /\ \E sb \in db.storeBooks : sb.copies = 2

\* C2 (Spec): no failure of a row aborts the batch or the file.  While
\* processBatch works on a row (its transaction being opened, validated,
\* written, committed or rolled back), no step makes processCSV throw: every
\* failure ends as an entry of result.errors and the loop goes on.
C2_RowFailureNeverAborts ==
    [][pc[1] \in RowLabels => completion'[1] # "throw"]_vars

\* C3 (Spec): the scratch file is deleted on every exit path.  Whichever
\* way processCSV reaches its finally block (the normal end, the zero-row
\* return, an exception of saveTempFile, countCSVRows, readBatch or
\* processBatch), after the block, unless the deletion itself failed, no
\* scratch file of the call is on disk.
C3_ScratchFileDeleted ==
    [][(pc[1] = "finally" /\ faults' = faults) => call[1] \notin disk']_vars

\* C4 (Spec): for every inventory record, committed or written by the
\* transaction in progress, soldOut = (copies <= 0), after any sequence of
\* uploads of valid and invalid rows.
C4_SoldOutMatchesCopies ==
    \A sb \in db.storeBooks \cup View(transaction[1]).storeBooks :
        sb.soldOut = (sb.copies <= 0)

\* C4, its case: a second upload has ended and a record holds two copies,
\* one created and one added by a later row
C4_Witness ==
    /\ uploads = 2 /\ pc[1] = "done"
    /\ \E sb \in db.storeBooks : sb.copies = 2 /\ ~sb.soldOut

\* C5 (SpecLong): a file of N data rows is processed in ceil(N / B) batches,
\* B = 100.  While batch number batchIndex is processed, its rows are the
\* data rows with 0-based index in [batchIndex * B, min((batchIndex + 1) * B,
\* N)), and the rows read so far are those of the batches 0..batchIndex; when
\* processCSV returns, ceil(N / B) batches were run and N rows were read.
C5_Batches ==
    LET N == Len(fileBuffer[1])
        B == DEFAULT_BATCH_SIZE
    IN  /\ pc[1] \in RowLabels =>
              /\ batchIndex[1] < Ceil(N, B)
              /\ batchRows[1] =
                    SubSeq(fileBuffer[1], batchIndex[1] * B + 1,
                           Min((batchIndex[1] + 1) * B, N))
              /\ rowsRead[1] = Min((batchIndex[1] + 1) * B, N)
        /\ Returned(1) =>
              /\ batchIndex[1] = Ceil(N, B)
              /\ rowsRead[1] = N

\* C5, its case: a file of B + 1 rows has been processed in two batches, the
\* second of one row
C5_Witness ==
    /\ Returned(1)
    /\ Len(fileBuffer[1]) = DEFAULT_BATCH_SIZE + 1
    /\ batchIndex[1] = 2
    /\ Len(batchRows[1]) = 1
    /\ rowsRead[1] = DEFAULT_BATCH_SIZE + 1

\* the commit of the current row of process p succeeds in this step
Commits(p) == pc[p] = "commit" /\ pc'[p] # "catch"

Ids(rows) == {r.id : r \in rows}

\* C6 (Spec): a valid row whose store name and author name, and so its book,
\* are not in the database.  The commit of the row adds exactly one store,
\* one author, one book of that author and one inventory record of that
\* store and book, with copies = 1, price = the row's price and soldOut =
\* false; processedRows and the four created counters grow by 1 and
\* updated.storeBooks does not change.
C6_BrandNewRow ==
    [][(/\ Commits(1)
        /\ \A s \in db.stores : s.name # Trim(CurrentRow(1).store_name)
        /\ \A a \in db.authors : a.name # Trim(CurrentRow(1).author_name)
        /\ \A b \in db.books, a \in db.authors :
              ~(/\ b.name = Trim(CurrentRow(1).book_name)
                /\ b.authorId = a.id
                /\ a.name = Trim(CurrentRow(1).author_name)))
       => LET row == CurrentRow(1)
          IN  /\ \E s \in db'.stores, a \in db'.authors, b \in db'.books,
                    sb \in db'.storeBooks :
                    /\ s \notin db.stores /\ db'.stores = db.stores \cup {s}
                    /\ a \notin db.authors /\ db'.authors = db.authors \cup {a}
                    /\ b \notin db.books /\ db'.books = db.books \cup {b}
                    /\ sb \notin db.storeBooks
                    /\ db'.storeBooks = db.storeBooks \cup {sb}
                    /\ s.id \notin Ids(db.stores) /\ a.id \notin Ids(db.authors)
                    /\ b.id \notin Ids(db.books) /\ sb.id \notin Ids(db.storeBooks)
                    /\ s.name = Trim(row.store_name)
                    /\ a.name = Trim(row.author_name)
                    /\ b.name = Trim(row.book_name) /\ b.authorId = a.id
                    /\ sb.storeId = s.id /\ sb.bookId = b.id
                    /\ sb.copies = 1
                    /\ sb.price = parseFloat(row.price).val
                    /\ sb.soldOut = FALSE
              /\ result'[1].processedRows = result[1].processedRows + 1
              /\ result'[1].created.stores = result[1].created.stores + 1
              /\ result'[1].created.authors = result[1].created.authors + 1
              /\ result'[1].created.books = result[1].created.books + 1
              /\ result'[1].created.storeBooks = result[1].created.storeBooks + 1
              /\ result'[1].updated = result[1].updated
              /\ result'[1].errors = result[1].errors]_vars

\* C6, its case: the row of store "A", book "b" (5 pages), author "a" at the
\* price 9 has been committed into the empty database
C6_Witness ==
    /\ pc[1] # "idle"
    /\ result[1].processedRows = 1
    /\ result[1].created = [stores |-> 1, authors |-> 1, books |-> 1, storeBooks |-> 1]
    /\ result[1].updated.storeBooks = 0
    /\ db.stores = {[id |-> 1, name |-> <<"A">>, address |-> <<"x">>, logo |-> Undefined]}
    /\ db.authors = {[id |-> 1, name |-> <<"a">>]}
    /\ db.books = {[id |-> 1, name |-> <<"b">>, pages |-> 5, authorId |-> 1]}
    /\ db.storeBooks = {[id |-> 1, storeId |-> 1, bookId |-> 1, price |-> 900,
                         copies |-> 1, soldOut |-> FALSE]}

\* C7 (Spec): a valid row whose store, book and author are those of a row
\* processed before, at another price.  The commit of the row creates no
\* store, author, book or inventory record and changes no created counter;
\* updated.storeBooks and processedRows grow by 1; the inventory record of
\* the store and the book has one copy more, the price of this row and
\* soldOut = false, and no other inventory record changes.
C7_RepeatedRow ==
    [][\A s \in db.stores, a \in db.authors, b \in db.books, sb \in db.storeBooks :
          (/\ Commits(1)
           /\ s.name = Trim(CurrentRow(1).store_name)
           /\ a.name = Trim(CurrentRow(1).author_name)
           /\ b.name = Trim(CurrentRow(1).book_name) /\ b.authorId = a.id
           /\ sb.storeId = s.id /\ sb.bookId = b.id
           /\ sb.price # parseFloat(CurrentRow(1).price).val)
          => /\ Ids(db'.stores) = Ids(db.stores)
             /\ db'.authors = db.authors
             /\ db'.books = db.books
             /\ Ids(db'.storeBooks) = Ids(db.storeBooks)
             /\ db'.storeBooks =
                   (db.storeBooks \ {sb}) \cup
                      {[id |-> sb.id, storeId |-> sb.storeId, bookId |-> sb.bookId,
                        price |-> parseFloat(CurrentRow(1).price).val,
                        copies |-> sb.copies + 1, soldOut |-> FALSE]}
             /\ result'[1].created = result[1].created
             /\ result'[1].updated.storeBooks = result[1].updated.storeBooks + 1
             /\ result'[1].processedRows = result[1].processedRows + 1
             /\ result'[1].errors = result[1].errors]_vars

\* C7, its case: after the row of store "A", book "b", author "a" at the
\* price 9, the row with the same three names at the price 7.5 has been
\* committed
C7_Witness ==
    /\ pc[1] # "idle"
    /\ result[1].updated.storeBooks = 1
    /\ Cardinality(db.stores) = 1 /\ Cardinality(db.authors) = 1
    /\ Cardinality(db.books) = 1
    /\ db.storeBooks = {[id |-> 1, storeId |-> 1, bookId |-> 1, price |-> 750,
                         copies |-> 2, soldOut |-> FALSE]}

\* C8 (Spec): a file with no data row.  During the call no entity changes
\* and no transaction is opened; the call returns totalRows = 0,
\* processedRows = 0, success = true, no error and all counters 0; and when
\* it returns, the finally block, unless the deletion itself fails, has
\* removed the scratch file.
C8_EmptyFile ==
    [][(pc[1] # "idle" /\ fileBuffer[1] = <<>>) =>
          /\ db' = db
          /\ transaction'[1] = NoTransaction
          /\ pc'[1] \notin RowLabels \cup {"readBatch"}
          /\ completion'[1] = "return" =>
                result'[1] =
                    [success |-> TRUE, totalRows |-> 0, processedRows |-> 0,
                     errors |-> <<>>,
                     created |-> [stores |-> 0, authors |-> 0, books |-> 0,
                                  storeBooks |-> 0],
                     updated |-> [storeBooks |-> 0]]
          /\ (pc[1] = "finally" /\ completion[1] = "return" /\ faults' = faults) =>
                call[1] \notin disk']_vars

\* C8, its case: after an upload that created entities, the call for a file
\* with no data row has returned and its scratch file is gone
C8_Witness ==
    /\ Returned(1)
    /\ fileBuffer[1] = <<>>
    /\ result[1].success /\ result[1].totalRows = 0
    /\ call[1] = 2 /\ call[1] \notin disk
    /\ db.storeBooks # {}

\* C9 (SpecLong): the k-th data row of the file is reported as row k + 1.
\* Whenever an entry is added to result.errors, the row being processed is
\* the k-th data row of the file, k = the rows of the earlier batches plus
\* its 1-based position in this batch, the entry's row is k + 1, and for the
\* first row of batch batchIndex it is batchIndex * 100 + 2.
C9_RowNumbers ==
    [][Len(result'[1].errors) = Len(result[1].errors) + 1 =>
          LET e == result'[1].errors[Len(result'[1].errors)]
              k == (rowsRead[1] - Len(batchRows[1])) + i[1] + 1
          IN  /\ k \in 1..Len(fileBuffer[1])
              /\ fileBuffer[1][k] = CurrentRow(1)
              /\ e.row = k + 1
              /\ i[1] = 0 => e.row = batchIndex[1] * DEFAULT_BATCH_SIZE + 2
              /\ SubSeq(result'[1].errors, 1, Len(result[1].errors))
                    = result[1].errors]_vars

\* C9, its case: the first data row is reported as row 2, and in the second
\* batch the first row (data row 101, a storage error) as row 102 and the
\* second row (data row 102, pages = -1) as row 103
C9_Witness ==
    /\ pc[1] # "idle"
    /\ Len(fileBuffer[1]) > DEFAULT_BATCH_SIZE + 1
    /\ result[1].errors # <<>>
    /\ result[1].errors[1].row = 2
    /\ [row |-> DEFAULT_BATCH_SIZE + 2, message |-> StorageErrorMessage]
          \in Range(result[1].errors)
    /\ [row |-> DEFAULT_BATCH_SIZE + 3,
        message |-> <<"pages", " must be a positive integer.">>]
          \in Range(result[1].errors)

\* C10 (Spec): when processCSV returns, success is true exactly when errors
\* is empty, every row is counted in processedRows or has its error entry,
\* and a result with errors and processed rows has success = false; and once
\* a row has succeeded, the failure of a later row does not make processCSV
\* throw: the partial result is returned.
C10_PartialResultReturned ==
    [][/\ (pc'[1] = "done" /\ completion'[1] = "return") =>
              /\ result'[1].success <=> (result'[1].errors = <<>>)
              /\ result'[1].processedRows + Len(result'[1].errors)
                    = result'[1].totalRows
              /\ result'[1].totalRows = Len(fileBuffer'[1])
       /\ (pc[1] \in RowLabels /\ result[1].processedRows > 0) =>
              completion'[1] # "throw"]_vars

\* what holds of C10: the result that is returned
C10_ReturnedResult ==
    Returned(1) =>
        /\ result[1].success <=> (result[1].errors = <<>>)
        /\ result[1].processedRows + Len(result[1].errors) = result[1].totalRows
        /\ result[1].totalRows = Len(fileBuffer[1])
        /\ \A k \in 1..Len(fileBuffer[1]) :
              ~validateCSVRow(fileBuffer[1][k]).isValid =>
                  \E e \in Range(result[1].errors) : e.row = k + 1

\* a partial result is returned: one row committed, one row in errors
C10_PartialWitness ==
    /\ Returned(1)
    /\ ~result[1].success
    /\ result[1].processedRows = 1
    /\ Len(result[1].errors) = 1

\* C11 (Spec): the response to an upload whose processCSV call returned.
\* Its status is 200 when errors is empty, 207 when errors is not empty and
\* processedRows >= 1, 400 when errors is not empty and processedRows = 0,
\* and its data is the whole result of processCSV.
C11_UploadStatus ==
    [][(pc[1] = "done" /\ completion[1] = "return") =>
          /\ response'[1].data = result[1]
          /\ response'[1].statusCode =
                (IF result[1].errors = <<>> THEN 200
                 ELSE IF result[1].processedRows >= 1 THEN 207
                 ELSE 400)
          /\ response'[1].meta.processedRows = result[1].processedRows]_vars

\* C11, its case: a file with one valid and one invalid row has been
\* answered with 207 and the result in data
C11_Witness ==
    /\ pc[1] = "idle"
    /\ response[1].statusCode = 207
    /\ response[1].data.processedRows = 1
    /\ Len(response[1].data.errors) = 1
    /\ response[1].data.totalRows = 2

\* C12 (SpecStock): soldOut = (copies <= 0) holds of every inventory record
\* after every operation that writes one: findOrCreateStoreBook (the
\* uploads), updateStoreBookCopies, incrementStoreBookCopies and
\* createStoreBook of the service, updateCopies, incrementCopies,
\* updateSoldOut and createStoreBook of the repository, with any arguments.
C12_SoldOutAfterEveryMutation ==
    \A sb \in db.storeBooks : (sb.soldOut <=> sb.copies <= 0)

\* C13 (SpecRace): two uploads that run at the same time and name the same
\* store, author and book leave, once both have finished, at most one store
\* per trimmed name, one author per trimmed name and one book per trimmed
\* name and author.
C13_NoDuplicates ==
    (/\ pc[1] = "idle" /\ pc[2] = "idle"
     /\ request[1] # NoFile /\ request[2] # NoFile)
    => /\ \A x, y \in db.stores : x.name = y.name => x.id = y.id
       /\ \A x, y \in db.authors : x.name = y.name => x.id = y.id
       /\ \A x, y \in db.books :
             (x.name = y.name /\ x.authorId = y.authorId) => x.id = y.id

\* C14 (SpecRace): in every state the table holds at most one inventory
\* record per store and book; a create that meets the record another upload
\* has committed for the same pair writes nothing and goes to the catch
\* block, and the catch block, when its rollback succeeds, appends the error
\* entry of the row and leaves the tables as they are.
C14_OneStockRowPerPair ==
    /\ [](\A x, y \in db.storeBooks :
             (x.storeId = y.storeId /\ x.bookId = y.bookId) => x.id = y.id)
    /\ [][\A p \in Procs :
             (/\ pc[p] = "writeStoreBook" /\ pc'[p] # "writeStoreBook"
              /\ scope[p].existingStoreBook.id = Null
              /\ \E sb \in db.storeBooks :
                    sb.storeId = scope[p].store /\ sb.bookId = scope[p].book)
             => /\ pc'[p] = "catch"
                /\ transaction'[p].ins.storeBooks = {}
                /\ db' = db]_vars
    /\ [][\A p \in Procs :
             (/\ pc[p] = "catch" /\ pc'[p] # "catch"
              /\ scope[p].error = <<"Validation error">>
              /\ completion'[p] # "throw")
             => /\ result'[p].errors =
                      Append(result[p].errors,
                             [row |-> RowNumber(p),
                              message |-> <<"Validation error">>])
                /\ result'[p].processedRows = result[p].processedRows
                /\ transaction'[p].state = "rollback"
                /\ db' = db]_vars

\* C14, its case: both uploads have finished, the pair of the last row has
\* its one record with one copy, and one of the two uploads has reported
\* the row with the error of the unique index
C14_Witness ==
    /\ pc[1] = "idle" /\ pc[2] = "idle"
    /\ \E sb \in db.storeBooks : sb.copies = 1 /\ sb.price = 0 /\
          \E st \in db.stores, b \in db.books :
             /\ st.id = sb.storeId /\ st.name = <<"A">>
             /\ b.id = sb.bookId /\ b.name = <<"c">>
    /\ \E p \in Procs :
          /\ response[p] # NoResponse
          /\ response[p].statusCode \in {207, 400}
          /\ \E k \in 1..Len(response[p].data.errors) :
                response[p].data.errors[k].message = <<"Validation error">>

\* C15 (SpecUpload): the upload endpoint starts processCSV exactly for a
\* file that is present, not empty, at most 10 MiB large, of an accepted
\* MIME type and with the extension .csv; every other request is answered
\* with status 400 and creates no scratch file, transaction or row.
C15_OnlyValidFilesProcessed ==
    [][uploads' = uploads + 1 =>
          LET file == request'[1]
          IN  IF /\ file.present
                 /\ file.size > 0
                 /\ file.size <= 10 * 1024 * 1024
                 /\ file.mimetype \in {"text/csv", "application/vnd.ms-excel",
                                       "text/plain"}
                 /\ endsWith(toLowerCase(file.originalname), <<".", "c", "s", "v">>)
              THEN pc'[1] = "saveTempFile"
              ELSE /\ pc'[1] = "idle"
                   /\ response'[1].statusCode = 400
                   /\ db' = db /\ disk' = disk
                   /\ transaction' = transaction]_vars

\* C16 (SpecReport): getTopProlificAuthors(storeId, 5) returns at most five
\* authors, as many as the store has authors with a book in stock when these
\* are fewer; the bookCount of each is the number of the author's books that
\* have an inventory record with copies > 0 in that store; the list is in
\* descending order of bookCount, authors with the same count in the order in
\* which the stored records first show them; and no author left out has a
\* larger bookCount than one in the list.
C16_TopProlificAuthors ==
    response[1].message = "getTopProlificAuthors" =>
        LET storeId == response[1].meta.arg
            top     == response[1].data
            InStock(a) ==
                {sb \in db.storeBooks :
                    /\ sb.storeId = storeId /\ sb.copies > 0
                    /\ \E b \in db.books : b.id = sb.bookId /\ b.authorId = a}
            Count(a) == Cardinality({sb.bookId : sb \in InStock(a)})
            FirstSeen(a) == First(InStock(a)).id
            Stocked == {a.id : a \in {x \in db.authors : InStock(x.id) # {}}}
        IN  /\ Len(top) <= 5
            /\ Len(top) = IF Cardinality(Stocked) <= 5 THEN Cardinality(Stocked) ELSE 5
            /\ \A k \in 1..Len(top) :
                  /\ top[k].id \in Stocked
                  /\ top[k].bookCount = Count(top[k].id)
                  /\ \E a \in db.authors : a.id = top[k].id /\ a.name = top[k].name
            /\ \A j, k \in 1..Len(top) :
                  j < k => \/ top[j].bookCount > top[k].bookCount
                           \/ /\ top[j].bookCount = top[k].bookCount
                              /\ FirstSeen(top[j].id) < FirstSeen(top[k].id)
            /\ \A a \in Stocked :
                  (\A k \in 1..Len(top) : top[k].id # a)
                      => \A k \in 1..Len(top) : Count(a) <= top[k].bookCount

\* C16, its case: store 1 has six authors in stock and a record without
\* copies; the list holds five authors, the first with two books, then
\* authors with one book each in the order of the records, which is not the
\* order of their ids
C16_Witness ==
    /\ response[1].message = "getTopProlificAuthors"
    /\ response[1].meta.arg = 1
    /\ Len(response[1].data) = 5
    /\ response[1].data[1].bookCount = 2
    /\ response[1].data[2].bookCount = 1
    /\ response[1].data[2].id > response[1].data[3].id
    /\ \E sb \in db.storeBooks : sb.storeId = 1 /\ sb.copies = 0
    /\ Cardinality({b.authorId : b \in {x \in db.books :
            \E sb \in db.storeBooks :
                sb.storeId = 1 /\ sb.bookId = x.id /\ sb.copies > 0}}) = 6

\* C17 (SpecReport): for a store that exists and has no inventory record
\* getStoreReportData returns report data, of that store, whose
\* topPriciestBooks and topProlificAuthors are both empty.
C17_EmptyStoreReport ==
    (/\ response[1].message = "getStoreReportData"
     /\ \E st \in db.stores : st.id = response[1].meta.arg
     /\ \A sb \in db.storeBooks : sb.storeId # response[1].meta.arg)
    => /\ response[1].data # None
       /\ \A report \in response[1].data :
             /\ report.store.id = response[1].meta.arg
             /\ report.topPriciestBooks = <<>>
             /\ report.topProlificAuthors = <<>>

\* C17, its case: the report of store 2, which stocks nothing, while store
\* 1 has records, has been returned
C17_Witness ==
    /\ response[1].message = "getStoreReportData"
    /\ response[1].meta.arg = 2
    /\ response[1].data # None
    /\ \E sb \in db.storeBooks : sb.storeId = 1 /\ sb.copies > 0

\* C18 (SpecValidate): validatePositiveInteger accepts exactly the cells
\* that are an integer numeral of value 1 or more, and
\* validateNonNegativeNumber exactly the cells that are a decimal numeral of
\* value 0 or more; every other cell is rejected: no cell, the empty cell, a
\* cell that is no numeral ("12abc", and for the pages "3.7"), a numeral
\* below the floor.  A numeral is an optional sign and digits, for the price
\* with an optional "." and decimals; white space around it is ignored.
C18_NumericValidators ==
    LET value == response[1].meta.arg
        body  == Unsigned(Trim(value))
        IsDigits(s) == s # <<>> /\ \A k \in 1..Len(s) : s[k] \in Digits
        IsInteger == value # Undefined /\ IsDigits(body)
        IsDecimal ==
            /\ value # Undefined
            /\ \/ IsDigits(body)
               \/ \E k \in 1..Len(body) :
                     /\ body[k] = "."
                     /\ IsDigits(SubSeq(body, 1, k - 1) \o SubSeq(body, k + 1, Len(body)))
    IN  /\ response[1].message = "validatePositiveInteger" =>
              (response[1].data.isValid <=> (IsInteger /\ parseInt(value).val >= 1))
        /\ response[1].message = "validateNonNegativeNumber" =>
              (response[1].data.isValid <=> (IsDecimal /\ parseFloat(value).val >= 0))

\* C19 (SpecLong): within one run of processCSV the rows are processed in
\* the order of the file and the result only grows: the row numbers of
\* result.errors increase strictly, an entry once appended stays as it is,
\* processedRows and the counters never decrease, and the row a transaction
\* is opened for is the one after the rows already counted or reported.
C19_AppendOnly ==
    /\ [](\A k \in 1..(Len(result[1].errors) - 1) :
             result[1].errors[k].row < result[1].errors[k + 1].row)
    /\ [][(pc[1] # "idle" /\ pc'[1] # "idle") =>
             /\ Len(result'[1].errors) >= Len(result[1].errors)
             /\ SubSeq(result'[1].errors, 1, Len(result[1].errors)) = result[1].errors
             /\ result'[1].processedRows >= result[1].processedRows
             /\ result'[1].totalRows >= result[1].totalRows
             /\ \A tb \in Tables :
                   result'[1].created[tb] >= result[1].created[tb]
             /\ result'[1].updated.storeBooks >= result[1].updated.storeBooks]_vars
    /\ [][(pc[1] # "transaction" /\ pc'[1] = "transaction") =>
             batchIndex'[1] * getSystemBatchSize + i'[1]
                 = result'[1].processedRows + Len(result'[1].errors)]_vars

\* C19, its case: in the second batch of a file, with two rows counted and
\* the entries of rows 2 and 4 to 101 reported, a further row is at hand
C19_Witness ==
    /\ pc[1] = "transaction"
    /\ batchIndex[1] = 1 /\ i[1] = 1
    /\ result[1].processedRows = 3
    /\ Len(result[1].errors) = 98
    /\ result[1].errors[1].row = 2
    /\ result[1].errors[98].row = 101

\* C20 (SpecLong): within one run of processCSV at most one row transaction
\* is open: when the transaction of a row is about to be opened the one of
\* the row before has been committed or rolled back, a transaction is open
\* only while its row is processed, and a batch is read only when every row
\* read before is finished.
C20_OneOpenTransaction ==
    /\ pc[1] = "transaction" => transaction[1].state # "open"
    /\ transaction[1].state = "open" => pc[1] \in RowLabels \ {"transaction"}
    /\ (pc[1] = "transaction" /\ batchIndex[1] * getSystemBatchSize + i[1] > 0)
          => transaction[1].state \in {"commit", "rollback"}
    /\ pc[1] = "readBatch" =>
          /\ transaction[1].state # "open"
          /\ rowsRead[1] = batchIndex[1] * getSystemBatchSize
          /\ result[1].processedRows + Len(result[1].errors) = rowsRead[1]

\* C20, its case: the second batch is about to be read; the hundred rows of
\* the first are finished, the last one rolled back
C20_Witness ==
    /\ pc[1] = "readBatch"
    /\ batchIndex[1] = 1
    /\ rowsRead[1] = 100
    /\ transaction[1].state = "rollback"
    /\ result[1].processedRows = 2

\* C21 (Spec): a row that fails validation.  The step that validates it
\* appends one entry, with the row's number and the message of the
\* validation, to result.errors and changes nothing else of the result; the
\* rollback that follows ends the transaction without a write; neither step
\* changes a table, processedRows or a counter.
C21_InvalidRowFrame ==
    [][(/\ pc[1] \in {"transaction", "rollbackInvalid"}
        /\ ~validateCSVRow(CurrentRow(1)).isValid
        /\ faults' = faults)
       => /\ db' = db
          /\ result'[1].processedRows = result[1].processedRows
          /\ result'[1].created = result[1].created
          /\ result'[1].updated = result[1].updated
          /\ result'[1].totalRows = result[1].totalRows
          /\ transaction'[1].ins = EmptyTables /\ transaction'[1].upd = EmptyTables
          /\ pc[1] = "transaction" =>
                /\ pc'[1] = "rollbackInvalid"
                /\ result'[1].errors =
                      Append(result[1].errors,
                             [row |-> RowNumber(1),
                              message |-> validateCSVRow(CurrentRow(1)).error])
          /\ pc[1] = "rollbackInvalid" =>
                /\ transaction'[1].state = "rollback"
                /\ result'[1].errors = result[1].errors]_vars

\* C21, its case: after a committed row the row with pages = -1 has been
\* reported as row 3 and rolled back; the tables hold the first row alone
C21_Witness ==
    /\ Returned(1)
    /\ transaction[1].state = "rollback"
    /\ result[1].processedRows = 1
    /\ result[1].created = [stores |-> 1, authors |-> 1, books |-> 1, storeBooks |-> 1]
    /\ result[1].errors = <<[row |-> 3,
                             message |-> <<"pages", " must be a positive integer.">>]>>
    /\ Cardinality(db.storeBooks) = 1 /\ Cardinality(db.books) = 1

\* C22 (Spec): no partial commit of a row.  No step of processRow writes to
\* the committed tables; a step of processRow that fails goes to the catch
\* block with the message of its exception and the result as it was; the
\* catch block, entered with the row's transaction open, leaves the tables,
\* processedRows and the counters as they are, whatever the row's earlier
\* steps have created or updated, and, unless the rollback itself fails,
\* ends the transaction by rollback and appends the message with the row's
\* number to result.errors.
C22_NoPartialCommit ==
    [][/\ pc[1] \in {"findOrCreateStore", "updateStore", "findOrCreateAuthor",
                     "findOrCreateBook", "findStoreBook", "writeStoreBook"} =>
             /\ db' = db
             /\ result'[1] = result[1]
             /\ pc'[1] = "catch" =>
                   /\ transaction'[1] = transaction[1]
                   /\ scope'[1].error \in {<<"storage error">>, <<"Validation error">>}
       /\ (pc[1] = "catch" /\ transaction[1].state = "open") =>
             /\ db' = db
             /\ result'[1].processedRows = result[1].processedRows
             /\ result'[1].created = result[1].created
             /\ result'[1].updated = result[1].updated
             /\ transaction'[1].state = "rollback"
             /\ transaction'[1].ins = EmptyTables /\ transaction'[1].upd = EmptyTables
             /\ faults' = faults =>
                   result'[1].errors =
                       Append(result[1].errors,
                              [row |-> RowNumber(1), message |-> scope[1].error])]_vars

\* C22, its case: the second row of a file failed in processRow after it had
\* created its store and its book; it is reported as row 3 with the message
\* of the exception, and the tables hold the first row alone
C22_Witness ==
    /\ pc[1] # "idle"
    /\ transaction[1].state = "rollback"
    /\ scope[1].result.createdStore /\ scope[1].result.createdBook
    /\ result[1].errors = <<[row |-> 3, message |-> <<"storage error">>]>>
    /\ result[1].processedRows = 1
    /\ result[1].created = [stores |-> 1, authors |-> 1, books |-> 1, storeBooks |-> 1]
    /\ Cardinality(db.stores) = 1 /\ Cardinality(db.books) = 1

\* C23 (Spec): rows already committed remain committed.  The committed
\* tables change only by the successful commit of a row; no other step, and
\* none by which processCSV ends with an exception or is left, undoes a
\* commit: no row of a table disappears and no inventory record loses a copy.
C23_CommittedRowsStay ==
    [][/\ ~Commits(1) => db' = db
       /\ \A tb \in Tables : Ids(db[tb]) \subseteq Ids(db'[tb])
       /\ \A sb \in db.storeBooks :
             \E nb \in db'.storeBooks :
                /\ nb.id = sb.id /\ nb.storeId = sb.storeId /\ nb.bookId = sb.bookId
                /\ nb.copies >= sb.copies]_vars

\* C23, its case: processCSV has ended with an exception while it handled
\* the second row of a file, and what the first row created is in the tables
C23_Witness ==
    /\ pc[1] = "done" /\ completion[1] = "throw"
    /\ Len(fileBuffer[1]) = 2
    /\ i[1] = 1
    /\ result[1].processedRows = 1
    /\ Committed(fileBuffer[1][1])
    /\ Cardinality(db.storeBooks) = 1

\* C24 (Spec): a valid row whose store and book are in the tables.  The
\* commit of the row leaves the books as they are, pages and authorId of
\* the row's book included whatever pages the row carries, and the store's
\* name and address whatever address the row carries; the store's logo
\* becomes the row's trimmed logo when that is not blank and stays as it is
\* otherwise; no other store changes.
C24_ExistingStoreAndBook ==
    [][\A s \in db.stores, a \in db.authors, b \in db.books :
          (/\ Commits(1)
           /\ s.name = Trim(CurrentRow(1).store_name)
           /\ a.name = Trim(CurrentRow(1).author_name)
           /\ b.name = Trim(CurrentRow(1).book_name) /\ b.authorId = a.id)
          => LET logo == CurrentRow(1).logo
                 blank == logo = Undefined \/ Trim(logo) = <<>>
             IN  /\ db'.books = db.books
                 /\ db'.authors = db.authors
                 /\ db'.stores =
                       (db.stores \ {s}) \cup
                          {[id |-> s.id, name |-> s.name, address |-> s.address,
                            logo |-> IF blank THEN s.logo ELSE Trim(logo)]}]_vars

\* C24, its case: the store created with the address "x" and no logo and the
\* book created with 5 pages have met the row with the address "y", 7 pages
\* and the logo " L ": the logo is "L", address and pages are as before
C24_Witness ==
    /\ pc[1] # "idle"
    /\ result[1].updated.storeBooks = 1
    /\ db.stores = {[id |-> 1, name |-> <<"A">>, address |-> <<"x">>, logo |-> <<"L">>]}
    /\ db.books = {[id |-> 1, name |-> <<"b">>, pages |-> 5, authorId |-> 1]}

\* C25 (Spec): uploads one after the other, from the empty database.  The
\* inventory records change only by the successful commit of a row, and
\* that commit leaves the one record of the row's store and book with one
\* copy more than before (1 when there was none) and with the price of the
\* row, and every other record as it was: so the copies of a record are the
\* rows committed for its store and book, and its price is the price of the
\* last of them, be it lower or higher than the one before.
C25_CopiesAndLastPrice ==
    [][/\ ~Commits(1) => db'.storeBooks = db.storeBooks
       /\ Commits(1) =>
             \E s \in db'.stores, a \in db'.authors, b \in db'.books :
                /\ s.name = Trim(CurrentRow(1).store_name)
                /\ a.name = Trim(CurrentRow(1).author_name)
                /\ b.name = Trim(CurrentRow(1).book_name) /\ b.authorId = a.id
                /\ LET old == {sb \in db.storeBooks :
                                  sb.storeId = s.id /\ sb.bookId = b.id}
                       new == {sb \in db'.storeBooks :
                                  sb.storeId = s.id /\ sb.bookId = b.id}
                   IN  /\ Cardinality(new) = 1 /\ Cardinality(old) <= 1
                       /\ \A nb \in new :
                             /\ nb.price = parseFloat(CurrentRow(1).price).val
                             /\ old = {} => nb.copies = 1
                             /\ \A ob \in old : nb.copies = ob.copies + 1
                       /\ db'.storeBooks \ new = db.storeBooks \ old]_vars

\* C25, its case: two uploads of one row each for the same store and book,
\* the first at 7.5 and the second at 9: two copies at the price 9; and the
\* empty database is where the uploads started
C25_Witness ==
    /\ uploads = 2 /\ pc[1] = "done"
    /\ result[1].updated.storeBooks = 1 /\ result[1].totalRows = 1
    /\ db.storeBooks = {[id |-> 1, storeId |-> 1, bookId |-> 1, price |-> 900,
                         copies |-> 2, soldOut |-> FALSE]}

\* C26 (Spec): a failure to delete the scratch file is swallowed.  The
\* finally block, whether the deletion succeeds or fails, leaves the result
\* and the way processCSV ends (its return, or the exception it throws) as
\* they are, and the call ends; the response that follows is the one of the
\* result, or the one of the exception, whether the file is left or not.
C26_DeletionFailureSwallowed ==
    [][/\ pc[1] = "finally" =>
             /\ pc'[1] = "done"
             /\ completion'[1] = completion[1]
             /\ result'[1] = result[1]
             /\ db' = db
       /\ (pc[1] = "done" /\ completion[1] = "return") =>
             response'[1].data = result[1]
       /\ (pc[1] = "done" /\ completion[1] = "throw") =>
             response'[1].statusCode = 500]_vars

\* C26, its case: the deletion failed after a file of one row was processed:
\* the scratch file is left, and the result came back and was answered 200
C26_Witness ==
    /\ uploads = 1 /\ pc[1] = "idle"
    /\ faults = 1
    /\ disk = {1}
    /\ response[1].statusCode = 200
    /\ response[1].data.processedRows = 1

\* C27 (SpecLong): every data row has exactly one outcome.  A step of a run
\* counts a row in processedRows or appends one entry to errors, never
\* both; processedRows + errors.length never exceeds totalRows once the rows
\* are counted, so processedRows <= totalRows; and when processCSV returns,
\* processedRows + errors.length = totalRows = the data rows of the file,
\* no two entries of errors having the same row number.
C27_OneOutcomePerRow ==
    /\ [](pc[1] \notin {"idle", "saveTempFile", "countCSVRows"} =>
             /\ result[1].processedRows + Len(result[1].errors)
                   <= result[1].totalRows
             /\ result[1].processedRows <= result[1].totalRows)
    /\ [](Returned(1) =>
             /\ result[1].processedRows + Len(result[1].errors) = result[1].totalRows
             /\ result[1].totalRows = Len(fileBuffer[1])
             /\ \A j, k \in 1..Len(result[1].errors) :
                   result[1].errors[j].row = result[1].errors[k].row => j = k)
    /\ [][(pc[1] # "idle" /\ pc'[1] # "idle") =>
             LET done  == result[1].processedRows + Len(result[1].errors)
                 done2 == result'[1].processedRows + Len(result'[1].errors)
             IN  /\ done2 \in {done, done + 1}
                 /\ result'[1].processedRows >= result[1].processedRows
                 /\ Len(result'[1].errors) >= Len(result[1].errors)]_vars

\* C27, its case: a file of 101 rows has been processed and returned: three
\* rows are counted and 98 are in errors
C27_Witness ==
    /\ Returned(1)
    /\ result[1].totalRows = DEFAULT_BATCH_SIZE + 1
    /\ result[1].processedRows = 3
    /\ Len(result[1].errors) = DEFAULT_BATCH_SIZE - 2

\* C28 (Spec): at every point of a run of processCSV, created.storeBooks +
\* updated.storeBooks = processedRows, and created.stores, created.authors
\* and created.books are each at most processedRows; the row in progress
\* never has both createdStoreBook and updatedStoreBook, and has one of them
\* when it is committed.
C28_StockCounters ==
    /\ result[1].created.storeBooks + result[1].updated.storeBooks
          = result[1].processedRows
    /\ result[1].created.stores <= result[1].processedRows
    /\ result[1].created.authors <= result[1].processedRows
    /\ result[1].created.books <= result[1].processedRows
    /\ ~(scope[1].result.createdStoreBook /\ scope[1].result.updatedStoreBook)
    /\ pc[1] = "commit" =>
          (scope[1].result.createdStoreBook \/ scope[1].result.updatedStoreBook)

\* C28, its case: a run has committed two rows for the same store and book:
\* one record created, one updated, one store, one author, one book
C28_Witness ==
    /\ pc[1] # "idle"
    /\ result[1].processedRows = 2
    /\ result[1].created = [stores |-> 1, authors |-> 1, books |-> 1, storeBooks |-> 1]
    /\ result[1].updated.storeBooks = 1
    /\ scope[1].result.updatedStoreBook

\* C29 (Spec): every transaction of processBatch is finished once.  The
\* catch block, which calls rollback, is entered only with the row's
\* transaction open, never after commit or rollback has been called on it;
\* a step finishes only a transaction that is open; and a row is counted in
\* processedRows only by the step in which its commit succeeds.
C29_FinishedOnce ==
    [][/\ pc'[1] = "catch" => transaction'[1].state = "open"
       /\ (transaction'[1] # transaction[1]
              /\ transaction'[1].state \in {"commit", "rollback"})
             => transaction[1].state = "open"
       /\ result'[1].processedRows > result[1].processedRows =>
             /\ pc[1] = "commit"
             /\ transaction'[1].state = "commit"
             /\ db' = View(transaction[1])]_vars

\* C30 (SpecLostUpdate): no increment is lost under concurrency.  When two
\* runs of processCSV that overlapped have both returned, the copies of the
\* inventory records are the rows the two runs have counted in
\* processedRows: a record that two rows have updated at the same time holds
\* both increments.
C30_NoLostIncrement ==
    (Returned(1) /\ Returned(2)) =>
        LET RECURSIVE Copies(_)
            Copies(rows) ==
                IF rows = {} THEN 0
                ELSE First(rows).copies + Copies(rows \ {First(rows)})
        IN  Copies(db.storeBooks)
                = result[1].processedRows + result[2].processedRows

=============================================================================
